---- MODULE Spec2Model ----
(***************************************************************************)
(* A model of the portfolio website's request gates:                       *)
(*   - the contact form (my-portfolio/js/main.js): field validation,       *)
(*     honeypot, rate limit, content check, mail send, message store;      *)
(*   - the CRUD mediator (unnamed/part_000): project and certificate       *)
(*     operations against the hosted store;                                *)
(*   - the session gate (unnamed/part_000): adminLogin, verify2FACode,     *)
(*     failed-login tally and address blocking.                            *)
(*   - the page's lifetime (unnamed/part_000, theme-switcher.js,           *)
(*     admin.js): initialization of the backend client and its retries,    *)
(*     the periodic session check, and the reads of local storage;         *)
(*   - the admin dashboard (admin.js): its view of the session, its        *)
(*     interval timers and its inactivity check;                           *)
(*   - the theme switcher (theme-switcher.js) and the debounce helper      *)
(*     (main.js, admin.js).                                                *)
(*                                                                         *)
(* Texts are sequences of one-character strings, so that trimming,         *)
(* stripping and pattern tests are computed on the characters.  The hosted *)
(* store, the auth provider, the mail service and the browser's local      *)
(* storage are the environment: each answers a call with one of the        *)
(* outcomes the calling code has a path for.                               *)
(***************************************************************************)
EXTENDS Integers, Sequences, FiniteSets, TLC

VARIABLES
    now,               \* Date.now(), in milliseconds
    \* ----- contact form (main.js) -----
    openTabs,          \* the browser tabs that show the contact form
    fields,            \* per tab: the values of the form's inputs
    formState,         \* per tab: formState.isSubmitting and .validationErrors
    phase,             \* per tab: where handleFormSubmit is suspended
    pending,           \* per tab: the formData of the submission in flight
    notices,           \* per tab: the notifications the last handler step showed
    localStore,        \* localStorage[rateLimitKey], shared by the tabs
    storageAvailable,  \* whether localStorage calls succeed or throw
    emailjsLoaded,     \* whether window.emailjs exists
    supabaseGlobal,    \* what window.supabase is on the contact page
    mailCalls,         \* number of emailjs.send calls issued
    storeCalls,        \* number of contact_messages inserts issued
    acceptedAt,        \* times at which a submission completed as accepted
    \* ----- hosted backend client (part_000) -----
    supabaseClient,    \* the module's supabaseClient: "null" until it is constructed
    projects,          \* the store's projects table; a row's id is its position
    certificates,      \* the store's certificates table
    crudResult,        \* how the last CRUD operation settled
    adminSession,      \* the module's adminSession
    authUser,          \* the user the auth provider holds a session for
    loginAttempts,     \* the store's login_attempts table: per address, created_at of its rows
    blockedIps,        \* the store's blocked_ips table: the addresses with an active row
    authResult,        \* how the last session-gate operation settled
    \* ----- page lifetime (part_000, theme-switcher.js, admin.js) -----
    connectionState,   \* the module's connectionState
    retryTimer,        \* the timeout handleInitializationError armed, if any
    initTrace,         \* initializeSupabase runs, retry delays, banners shown
    storedTheme,       \* localStorage[THEME_CONFIG.storageKey]
    userPreference,    \* theme-switcher's userPreference
    adminLocal,        \* localStorage's admin-failed-attempts and admin-lockout-end
    storageResult,     \* how the last handler that reads localStorage settled
    \* ----- admin dashboard (admin.js) -----
    adminState,        \* adminState.isAuthenticated, .currentUser, .data.certificates
    sessionMonitors,   \* the intervals startSessionMonitoring has set and nobody cleared
    autoRefresh,       \* the auto-refresh intervals alive, and window.adminAutoRefresh
    documentHidden,    \* document.hidden
    lastActivity,      \* setupSecurityMonitoring's lastActivity
    inactivityTimer,   \* the interval setupSecurityMonitoring has set
    dashResult,        \* the toast the last dashboard handler showed, and what it called
    \* ----- theme switcher (theme-switcher.js) -----
    currentTheme,      \* theme-switcher's currentTheme
    systemPreference,  \* theme-switcher's systemPreference
    isTransitioning,   \* theme-switcher's isTransitioning
    documentTheme,     \* "dark" when <html> carries data-theme="dark", else "light"
    transitionTimers,  \* due times of the timeouts applyTheme has set
    \* ----- debounce (main.js, admin.js) -----
    debounceTimeout,   \* the closure's timeout: the id of the timer set last, 0 if none
    pendingTimers,     \* the timeouts set and neither fired nor cleared
    debounceTrace,     \* the calls of the wrapper, and the invocations of func
    lastOp             \* the handler that ran last, and the path it took

formVars == <<openTabs, fields, formState, phase, pending, notices, localStore,
              storageAvailable, emailjsLoaded, supabaseGlobal, mailCalls,
              storeCalls, acceptedAt>>

crudVars == <<projects, certificates, crudResult>>

authVars == <<adminSession, authUser, loginAttempts, blockedIps, authResult>>

backendVars == <<supabaseClient, crudVars, authVars>>

dashVars == <<adminState, sessionMonitors, autoRefresh, documentHidden, lastActivity,
              inactivityTimer, dashResult>>

themeVars == <<currentTheme, systemPreference, isTransitioning, documentTheme,
               transitionTimers>>

debounceVars == <<debounceTimeout, pendingTimers, debounceTrace>>

\* What a caller on the admin page changes around its call of the backend.
callerVars == <<adminLocal, storageResult, dashVars>>

\* What neither the backend's session operations nor their callers touch.
bystanderVars == <<now, formVars, supabaseClient, crudVars, connectionState, retryTimer,
                   initTrace, storedTheme, userPreference, themeVars, debounceVars>>

pageVars == <<connectionState, retryTimer, initTrace, storedTheme, userPreference,
              adminLocal, storageResult, dashVars, themeVars, debounceVars>>

vars == <<now, formVars, backendVars, pageVars, lastOp>>

(***************************************************************************)
(* Bounds of the model.                                                    *)
(***************************************************************************)
MaxTicks == 2
MaxMailCalls == 6
MaxRows == 2
MaxCrudTicks == 1
MaxAuthTicks == 2
MaxLoginRows == 4
MaxMonitorTicks == 26
MaxInitTicks == 11
MaxFailedLogins == 5
MaxFieldMails == 2

TickMs == 30 * 60 * 1000
OneHour == 60 * 60 * 1000

AllTabs == {1, 2}
Null == "null"

(***************************************************************************)
(* The backend module before any operation has run.                        *)
(***************************************************************************)
\* let adminSession = null
NoSession == [exists |-> FALSE, user |-> "none", createdAt |-> 0, is2FAVerified |-> FALSE]

\* The addresses getUserIP can return: what the lookup service reports for
\* the client, or the fallback 'unknown'.
ClientAddresses == {"203.0.113.7"}
AllAddresses == ClientAddresses \cup {"unknown"}

NoCrudResult == [op |-> "none", ok |-> TRUE, message |-> "", id |-> 0, calls |-> 0,
                 data |-> <<>>]
\* let connectionState = { isConnected: false, isInitialized: false, ... }
NoConnection == [isConnected |-> FALSE, isInitialized |-> FALSE, lastError |-> "null",
                 retryCount |-> 0]
NoInitTrace == [runs |-> 0, delays |-> <<>>, banners |-> 0]
\* A localStorage key that holds a number, or is absent.
AbsentKey == [exists |-> FALSE, value |-> 0]
NumberKey(n) == [exists |-> TRUE, value |-> n]
NoAdminLocal == [attempts |-> AbsentKey, lockoutEnd |-> AbsentKey]
NoStorageResult == [op |-> "none", threw |-> FALSE, value |-> "none"]

NoTimer == [armed |-> FALSE, due |-> 0]
\* let adminState = { isAuthenticated: false, currentUser: null, ... }
NoAdminState == [isAuthenticated |-> FALSE, currentUser |-> "null", certificates |-> <<>>,
                 activeModals |-> {}]
\* The intervals one setInterval call site has set: those alive, each with
\* the time of its next firing, the id returned last, and how many were set.
NoIntervals == [active |-> {}, handle |-> 0, made |-> 0]
NoDashResult == [op |-> "none", toast |-> "none", called |-> "none", id |-> 0]
NoDebounceTrace == [calls |-> <<>>, invoked |-> <<>>]

\* The dashboard before initializeAdminPanel has run.
DashInit ==
    /\ adminState = NoAdminState
    /\ sessionMonitors = NoIntervals
    /\ autoRefresh = NoIntervals
    /\ documentHidden = FALSE
    /\ lastActivity = 0
    /\ inactivityTimer = NoTimer
    /\ dashResult = NoDashResult

\* let currentTheme = THEMES.LIGHT; let systemPreference = THEMES.LIGHT;
\* let isTransitioning = false; <html> carries no data-theme attribute.
ThemeInit ==
    /\ currentTheme = "light"
    /\ systemPreference = "light"
    /\ isTransitioning = FALSE
    /\ documentTheme = "light"
    /\ transitionTimers = {}

\* A debounced handler nobody has called yet: let timeout;
DebounceInit ==
    /\ debounceTimeout = 0
    /\ pendingTimers = {}
    /\ debounceTrace = NoDebounceTrace

NoAuthResult == [op |-> "none", ok |-> TRUE, message |-> "", contacted |-> FALSE,
                 user |-> "none", notified |-> FALSE, address |-> "none",
                 clean |-> FALSE]

BackendInit ==
    /\ projects = <<>>
    /\ certificates = <<>>
    /\ crudResult = NoCrudResult
    /\ adminSession = NoSession
    /\ authUser = "none"
    /\ loginAttempts = [a \in AllAddresses |-> <<>>]
    /\ blockedIps = {}
    /\ authResult = NoAuthResult

\* The page before DOMContentLoaded, with nothing kept in localStorage.
PageInit ==
    /\ connectionState = NoConnection
    /\ retryTimer = NoTimer
    /\ initTrace = NoInitTrace
    /\ storedTheme = "null"
    /\ userPreference = "null"
    /\ adminLocal = NoAdminLocal
    /\ storageResult = NoStorageResult
    /\ DashInit
    /\ ThemeInit
    /\ DebounceInit

(***************************************************************************)
(* Characters and texts.                                                   *)
(***************************************************************************)
LowerSeq == <<"a","b","c","d","e","f","g","h","i","j","k","l","m",
              "n","o","p","q","r","s","t","u","v","w","x","y","z">>
UpperSeq == <<"A","B","C","D","E","F","G","H","I","J","K","L","M",
              "N","O","P","Q","R","S","T","U","V","W","X","Y","Z">>
Lower == {LowerSeq[i] : i \in DOMAIN LowerSeq}
Upper == {UpperSeq[i] : i \in DOMAIN UpperSeq}
Digit == {"0","1","2","3","4","5","6","7","8","9"}
Alnum == Lower \cup Upper \cup Digit
WordChar == Alnum \cup {"_"}
Whitespace == {" ", "\t", "\n", "\r"}
LineTerminator == {"\n", "\r"}

RECURSIVE TrimStart(_)
TrimStart(s) ==
    IF s = <<>> THEN s
    ELSE IF Head(s) \in Whitespace THEN TrimStart(Tail(s)) ELSE s

RECURSIVE TrimEnd(_)
TrimEnd(s) ==
    IF s = <<>> THEN s
    ELSE IF s[Len(s)] \in Whitespace THEN TrimEnd(SubSeq(s, 1, Len(s) - 1)) ELSE s

\* String.prototype.trim
Trim(s) == TrimEnd(TrimStart(s))

ToLowerChar(c) ==
    IF c \in Upper THEN LowerSeq[CHOOSE i \in DOMAIN UpperSeq : UpperSeq[i] = c] ELSE c

\* String.prototype.toLowerCase
ToLowerCase(s) == [i \in DOMAIN s |-> ToLowerChar(s[i])]

HasSubAt(s, p, i) ==
    /\ i >= 1
    /\ i + Len(p) - 1 <= Len(s)
    /\ SubSeq(s, i, i + Len(p) - 1) = p

\* The pieces of s between occurrences of the character c.
RECURSIVE SplitOn(_, _)
SplitOn(s, c) ==
    IF \A i \in DOMAIN s : s[i] # c THEN <<s>>
    ELSE LET k == CHOOSE i \in DOMAIN s : s[i] = c /\ \A j \in 1..(i - 1) : s[j] # c
         IN  <<SubSeq(s, 1, k - 1)>> \o SplitOn(SubSeq(s, k + 1, Len(s)), c)

(***************************************************************************)
(* CONFIG (main.js).                                                       *)
(***************************************************************************)
NameMinLength == 2
NameMaxLength == 50
SubjectMinLength == 5
SubjectMaxLength == 100
MessageMinLength == 10
MessageMaxLength == 1000
maxSubmissionsPerHour == 5

FieldNames == {"name", "email", "subject", "message"}

\* A length rule of 0 stands for a rule the configuration does not give.
ValidationRules ==
    [name    |-> [minLength |-> NameMinLength, maxLength |-> NameMaxLength,
                  pattern |-> "name"],
     email   |-> [minLength |-> 0, maxLength |-> 0, pattern |-> "email"],
     subject |-> [minLength |-> SubjectMinLength, maxLength |-> SubjectMaxLength,
                  pattern |-> "none"],
     message |-> [minLength |-> MessageMinLength, maxLength |-> MessageMaxLength,
                  pattern |-> "none"]]

\* /^[a-zA-Z\s'-]+$/
NamePattern(s) ==
    /\ s # <<>>
    /\ \A i \in DOMAIN s : s[i] \in Lower \cup Upper \cup Whitespace \cup {"'", "-"}

EmailLocalChar ==
    Alnum \cup {".", "!", "#", "$", "%", "&", "'", "*", "+", "/", "=", "?",
                "^", "_", "{", "|", "}", "~", "-"}

\* [a-zA-Z0-9](?:[a-zA-Z0-9-]{0,61}[a-zA-Z0-9])?
DomainLabel(l) ==
    /\ Len(l) >= 1
    /\ Len(l) <= 63
    /\ l[1] \in Alnum
    /\ l[Len(l)] \in Alnum
    /\ \A i \in DOMAIN l : l[i] \in Alnum \cup {"-"}

\* The email pattern: local part, "@", then labels separated by dots.
EmailPattern(s) ==
    /\ \E i \in DOMAIN s : s[i] = "@"
    /\ LET k == CHOOSE i \in DOMAIN s : s[i] = "@" /\ \A j \in 1..(i - 1) : s[j] # "@"
           local == SubSeq(s, 1, k - 1)
           labels == SplitOn(SubSeq(s, k + 1, Len(s)), ".")
       IN  /\ local # <<>>
           /\ \A i \in DOMAIN local : local[i] \in EmailLocalChar
           /\ \A i \in DOMAIN labels : DomainLabel(labels[i])

PatternTest(pattern, value) ==
    CASE pattern = "name"  -> NamePattern(value)
      [] pattern = "email" -> EmailPattern(value)
      [] OTHER             -> TRUE

capitalizeFirst(str) ==
    CASE str = "name"    -> "Name"
      [] str = "email"   -> "Email"
      [] str = "subject" -> "Subject"
      [] str = "message" -> "Message"
      [] OTHER           -> str

\* validateField with the minimum length compared by <= instead of <.
validateField_MinInclusive(fieldName, raw) ==
    LET value == Trim(raw)
        validation == ValidationRules[fieldName]
    IN  IF value = <<>>
        THEN [isValid |-> FALSE,
              errorMessage |-> capitalizeFirst(fieldName) \o " is required"]
        ELSE IF validation.minLength # 0 /\ Len(value) <= validation.minLength
        THEN [isValid |-> FALSE,
              errorMessage |-> capitalizeFirst(fieldName) \o " must be at least "
                               \o ToString(validation.minLength) \o " characters"]
        ELSE [isValid |-> TRUE, errorMessage |-> ""]

\* validateField: the verdict and the error message for one field's raw value.
validateField(fieldName, raw) ==
    LET value == Trim(raw)
        validation == ValidationRules[fieldName]
    IN  IF value = <<>>
        THEN [isValid |-> FALSE,
              errorMessage |-> capitalizeFirst(fieldName) \o " is required"]
        ELSE IF validation.minLength # 0 /\ Len(value) < validation.minLength
        THEN [isValid |-> FALSE,
              errorMessage |-> capitalizeFirst(fieldName) \o " must be at least "
                               \o ToString(validation.minLength) \o " characters"]
        ELSE IF validation.maxLength # 0 /\ Len(value) > validation.maxLength
        THEN [isValid |-> FALSE,
              errorMessage |-> capitalizeFirst(fieldName) \o " must be less than "
                               \o ToString(validation.maxLength) \o " characters"]
        ELSE IF validation.pattern # "none" /\ ~PatternTest(validation.pattern, value)
        THEN [isValid |-> FALSE,
              errorMessage |->
                  IF fieldName = "email" THEN "Please enter a valid email address"
                  ELSE IF fieldName = "name"
                  THEN "Name can only contain letters, spaces, apostrophes, and hyphens"
                  ELSE capitalizeFirst(fieldName) \o " format is invalid"]
        ELSE [isValid |-> TRUE, errorMessage |-> ""]

\* formState.validationErrors after validateForm validated every field of f:
\* one entry per invalid field.
ValidationErrorsOf(f) ==
    [n \in {m \in FieldNames : ~validateField(m, f[m]).isValid} |->
        validateField(n, f[n]).errorMessage]

(***************************************************************************)
(* The security checks of the contact form.                                *)
(***************************************************************************)
\* The alternatives of /\b(viagra|casino|...|buy now)\b/i
SpamKeywords ==
    {<<"v","i","a","g","r","a">>,
     <<"c","a","s","i","n","o">>,
     <<"l","o","t","t","e","r","y">>,
     <<"w","i","n","n","e","r">>,
     <<"c","o","n","g","r","a","t","u","l","a","t","i","o","n","s">>,
     <<"c","l","i","c","k"," ","h","e","r","e">>,
     <<"b","u","y"," ","n","o","w">>}

\* \b before position i and after position j of s (both ends of a keyword
\* are word characters, so a boundary is a non-word neighbour or an end).
WordBoundaryAround(s, i, j) ==
    /\ (i = 1 \/ s[i - 1] \notin WordChar)
    /\ (j = Len(s) \/ s[j + 1] \notin WordChar)

MatchesSpamKeyword(s) ==
    \E k \in SpamKeywords : \E i \in DOMAIN s :
        /\ HasSubAt(s, k, i)
        /\ WordBoundaryAround(s, i, i + Len(k) - 1)

\* /https?:\/\/[^\s]+/
MatchesUrl(s) ==
    \E i \in DOMAIN s :
        \/ /\ HasSubAt(s, <<"h","t","t","p",":","/","/">>, i)
           /\ i + 7 <= Len(s)
           /\ s[i + 7] \notin Whitespace
        \/ /\ HasSubAt(s, <<"h","t","t","p","s",":","/","/">>, i)
           /\ i + 8 <= Len(s)
           /\ s[i + 8] \notin Whitespace

\* The pattern matching a run of ten identical characters: /(.)\1{9,}/
MatchesRepeatedChar_RunOfTen(s) ==
    \E i \in DOMAIN s :
        /\ i + 9 <= Len(s)
        /\ s[i] \notin LineTerminator
        /\ \A j \in i..(i + 9) : s[j] = s[i]

\* /(.)\1{10,}/ : a character followed by ten or more copies of itself.
MatchesRepeatedChar(s) ==
    \E i \in DOMAIN s :
        /\ i + 10 <= Len(s)
        /\ s[i] \notin LineTerminator
        /\ \A j \in i..(i + 10) : s[j] = s[i]

\* checkMessageContent: TRUE when the message field passes.
checkMessageContent(rawMessage) ==
    LET message == ToLowerCase(rawMessage)
    IN  ~(MatchesSpamKeyword(message) \/ MatchesUrl(message) \/ MatchesRepeatedChar(message))

\* localStorage[rateLimitKey]: no item, or the stored list of timestamps.
NoItem == [exists |-> FALSE, value |-> <<>>]
Item(submissions) == [exists |-> TRUE, value |-> submissions]

\* getSubmissionHistory: a read that throws, or an absent key, gives [].
getSubmissionHistory(store, available) ==
    IF available /\ store.exists THEN store.value ELSE <<>>

\* saveSubmissionHistory: the store's new content; a write that throws is dropped.
saveSubmissionHistory(store, available, submissions) ==
    IF available THEN Item(submissions) ELSE store

\* Array.prototype.filter(time => time > oneHourAgo)
RECURSIVE RecentOf(_, _)
RecentOf(submissions, oneHourAgo) ==
    IF submissions = <<>> THEN <<>>
    ELSE IF Head(submissions) > oneHourAgo
         THEN <<Head(submissions)>> \o RecentOf(Tail(submissions), oneHourAgo)
         ELSE RecentOf(Tail(submissions), oneHourAgo)

\* checkRateLimit appending the current time when the submission passes.
checkRateLimit_Appending(store, available, t) ==
    LET submissions == getSubmissionHistory(store, available)
        recentSubmissions == RecentOf(submissions, t - OneHour)
        ok == Len(recentSubmissions) < maxSubmissionsPerHour
    IN  [ok    |-> ok,
         store |-> saveSubmissionHistory(store, available,
                       IF ok THEN Append(recentSubmissions, t) ELSE recentSubmissions)]

\* checkRateLimit with the ceiling compared by <= instead of <.
checkRateLimit_OffByOne(store, available, t) ==
    LET submissions == getSubmissionHistory(store, available)
        recentSubmissions == RecentOf(submissions, t - OneHour)
    IN  [ok    |-> Len(recentSubmissions) <= maxSubmissionsPerHour,
         store |-> saveSubmissionHistory(store, available, recentSubmissions)]

\* checkRateLimit at time t: the verdict and the store it leaves.
checkRateLimit(store, available, t) ==
    LET submissions == getSubmissionHistory(store, available)
        recentSubmissions == RecentOf(submissions, t - OneHour)
    IN  [ok    |-> Len(recentSubmissions) < maxSubmissionsPerHour,
         store |-> saveSubmissionHistory(store, available, recentSubmissions)]

\* recordSubmission appending only while the recent history is under the ceiling.
recordSubmission_Recheck(store, available, t) ==
    IF Len(RecentOf(getSubmissionHistory(store, available), t - OneHour))
           < maxSubmissionsPerHour
    THEN saveSubmissionHistory(store, available,
                               Append(getSubmissionHistory(store, available), t))
    ELSE store

\* recordSubmission at time t: the store it leaves.
recordSubmission(store, available, t) ==
    saveSubmissionHistory(store, available,
                          Append(getSubmissionHistory(store, available), t))

ErrorNotice(message) == [type |-> "error", message |-> message]
SuccessNotice(message) == [type |-> "success", message |-> message]

\* performSecurityChecks without the honeypot test.
performSecurityChecks_NoHoneypot(f, store, available, t) ==
    LET rl == checkRateLimit(store, available, t)
    IN  IF ~rl.ok
        THEN [ok |-> FALSE, check |-> "rateLimit", store |-> rl.store,
              shown |-> <<ErrorNotice("Too many submissions. Please wait before trying again.")>>]
        ELSE IF ~checkMessageContent(f.message)
        THEN [ok |-> FALSE, check |-> "content", store |-> rl.store,
              shown |-> <<ErrorNotice("Message contains prohibited content.")>>]
        ELSE [ok |-> TRUE, check |-> "none", shown |-> <<>>, store |-> rl.store]

\* performSecurityChecks on the form values f at time t: the verdict, the
\* notifications it shows, and the store it leaves.
performSecurityChecks(f, store, available, t) ==
    IF f.website # <<>>
    THEN [ok |-> FALSE, check |-> "honeypot", shown |-> <<>>, store |-> store]
    ELSE LET rl == checkRateLimit(store, available, t)
         IN  IF ~rl.ok
             THEN [ok |-> FALSE, check |-> "rateLimit", store |-> rl.store,
                   shown |-> <<ErrorNotice("Too many submissions. Please wait before trying again.")>>]
             ELSE IF ~checkMessageContent(f.message)
             THEN [ok |-> FALSE, check |-> "content", store |-> rl.store,
                   shown |-> <<ErrorNotice("Message contains prohibited content.")>>]
             ELSE [ok |-> TRUE, check |-> "none", shown |-> <<>>, store |-> rl.store]

\* validateForm running the security checks first and validating the fields
\* only when they pass.
validateForm_SecurityFirst(f, store, available, t) ==
    LET sec == performSecurityChecks(f, store, available, t)
    IN  IF ~sec.ok
        THEN [isValid |-> FALSE, validationErrors |-> <<>>, security |-> sec]
        ELSE [isValid |-> DOMAIN ValidationErrorsOf(f) = {},
              validationErrors |-> ValidationErrorsOf(f),
              security |-> sec]

\* validateForm taking the security checks' verdict alone.
validateForm_SecurityOnly(f, store, available, t) ==
    LET sec == performSecurityChecks(f, store, available, t)
    IN  [isValid |-> sec.ok,
         validationErrors |-> ValidationErrorsOf(f),
         security |-> sec]

\* validateForm: every field is validated, then the security checks run.
validateForm(f, store, available, t) ==
    LET sec == performSecurityChecks(f, store, available, t)
    IN  [isValid |-> (DOMAIN ValidationErrorsOf(f) = {}) /\ sec.ok,
         validationErrors |-> ValidationErrorsOf(f),
         security |-> sec]

\* collectFormData: the trimmed field values.
collectFormData(f) ==
    [name |-> Trim(f.name), email |-> Trim(f.email),
     subject |-> Trim(f.subject), message |-> Trim(f.message)]

(***************************************************************************)
(* The values a visitor (or a bot) leaves in the form before submitting.   *)
(***************************************************************************)
NameAnn == <<"A","n","n"," ","L","e","e">>
NameJo == <<"J","o">>
NameJ == <<"J">>
EmailOk == <<"a","n","n","@","m","a","i","l",".","o","r","g">>
EmailBad == <<"a","n","n","@">>
SubjectOk == <<"H","e","l","l","o">>
MessageOk == <<"H","e","l","l","o"," ","t","h","e","r","e">>
MessageUrl == <<"s","e","e"," ","h","t","t","p",":","/","/","x",".","i","o">>

EmptyForm ==
    [name |-> <<>>, email |-> <<>>, subject |-> <<>>, message |-> <<>>, website |-> <<>>]

ValidForm ==
    [name |-> NameAnn, email |-> EmailOk, subject |-> SubjectOk,
     message |-> MessageOk, website |-> <<>>]

FormInputs ==
    {ValidForm,
     [ValidForm EXCEPT !.name = NameJo],
     [ValidForm EXCEPT !.name = NameJ],
     [ValidForm EXCEPT !.message = MessageUrl],
     [ValidForm EXCEPT !.website = <<"x">>],
     [ValidForm EXCEPT !.website = <<"h","i">>, !.name = NameJ, !.email = EmailBad]}

\* What emailjs.send answers: a response with a status, or a rejection.
MailResponses ==
    {[settled |-> "resolved", status |-> 200],
     [settled |-> "resolved", status |-> 202],
     [settled |-> "resolved", status |-> 400],
     [settled |-> "rejected", status |-> 0]}

\* The answer as lastOp shows it.
MailAnswer(response) ==
    IF response.settled = "resolved" THEN ToString(response.status) ELSE "rejected"

\* What the contact_messages insert answers.
StoreResponses == {"ok", "error", "thrown"}

FailedNotice == ErrorNotice("Failed to send message. Please try again later.")
SentNotice == SuccessNotice("Message sent successfully! Thank you for reaching out.")

(***************************************************************************)
(* The contact form's handlers.                                            *)
(***************************************************************************)
FormInit ==
    /\ openTabs = {1}
    /\ fields = [t \in AllTabs |-> EmptyForm]
    /\ formState = [t \in AllTabs |-> [isSubmitting |-> FALSE, validationErrors |-> <<>>]]
    /\ phase = [t \in AllTabs |-> "idle"]
    /\ pending = [t \in AllTabs |-> Null]
    /\ notices = [t \in AllTabs |-> <<>>]
    /\ storageAvailable \in BOOLEAN
    \* initializeRateLimiting has saved the (empty) recent history
    /\ localStore = saveSubmissionHistory(NoItem, storageAvailable, <<>>)
    /\ emailjsLoaded \in BOOLEAN
    /\ supabaseGlobal \in {"undefined", "api", "client"}
    /\ mailCalls = 0
    /\ storeCalls = 0
    /\ acceptedAt = <<>>

\* The visitor edits the inputs; they are disabled while a submission is in flight.
FillForm(t, f) ==
    /\ UNCHANGED <<backendVars, pageVars>>
    /\ ~formState[t].isSubmitting
    /\ fields' = [fields EXCEPT ![t] = f]
    /\ lastOp' = [op |-> "input", tab |-> t, path |-> "edited", arg |-> ""]
    /\ UNCHANGED <<now, openTabs, formState, phase, pending, notices, localStore,
                   storageAvailable, emailjsLoaded, supabaseGlobal, mailCalls,
                   storeCalls, acceptedAt>>

\* handleFormSubmit without its test of formState.isSubmitting.
handleFormSubmit_NoGuard(t) ==
    /\ UNCHANGED <<backendVars, pageVars>>
    /\ mailCalls < MaxMailCalls
    /\ IF FALSE
       THEN /\ lastOp' = [op |-> "submit", tab |-> t, path |-> "busy", arg |-> ""]
            /\ UNCHANGED <<formState, phase, pending, notices, localStore, mailCalls>>
       ELSE LET v == validateForm(fields[t], localStore, storageAvailable, now)
            IN  /\ localStore' = v.security.store
                /\ IF ~v.isValid
                   THEN /\ formState' = [formState EXCEPT
                                ![t].validationErrors = v.validationErrors]
                        /\ notices' = [notices EXCEPT ![t] = v.security.shown \o
                                <<ErrorNotice("Please correct the errors above")>>]
                        /\ lastOp' = [op |-> "submit", tab |-> t, path |-> "rejected", arg |-> ""]
                        /\ UNCHANGED <<phase, pending, mailCalls>>
                   ELSE IF ~emailjsLoaded
                   THEN \* sendEmail throws before any call; catch, then finally
                        /\ formState' = [formState EXCEPT
                                ![t].validationErrors = v.validationErrors,
                                ![t].isSubmitting = FALSE]
                        /\ notices' = [notices EXCEPT ![t] = <<FailedNotice>>]
                        /\ lastOp' = [op |-> "submit", tab |-> t, path |-> "mailUnavailable", arg |-> ""]
                        /\ UNCHANGED <<phase, pending, mailCalls>>
                   ELSE /\ formState' = [formState EXCEPT
                                ![t].validationErrors = v.validationErrors,
                                ![t].isSubmitting = TRUE]
                        /\ pending' = [pending EXCEPT ![t] = collectFormData(fields[t])]
                        /\ phase' = [phase EXCEPT ![t] = "sending"]
                        /\ mailCalls' = mailCalls + 1
                        /\ notices' = [notices EXCEPT ![t] = <<>>]
                        /\ lastOp' = [op |-> "submit", tab |-> t, path |-> "sending", arg |-> ""]
    /\ UNCHANGED <<now, openTabs, fields, storageAvailable, emailjsLoaded,
                   supabaseGlobal, storeCalls, acceptedAt>>

\* handleFormSubmit, from the submit event to its first suspension or its return.
handleFormSubmit(t) ==
    /\ UNCHANGED <<backendVars, pageVars>>
    /\ mailCalls < MaxMailCalls
    /\ IF formState[t].isSubmitting
       THEN /\ lastOp' = [op |-> "submit", tab |-> t, path |-> "busy", arg |-> ""]
            /\ UNCHANGED <<formState, phase, pending, notices, localStore, mailCalls>>
       ELSE LET v == validateForm(fields[t], localStore, storageAvailable, now)
            IN  /\ localStore' = v.security.store
                /\ IF ~v.isValid
                   THEN /\ formState' = [formState EXCEPT
                                ![t].validationErrors = v.validationErrors]
                        /\ notices' = [notices EXCEPT ![t] = v.security.shown \o
                                <<ErrorNotice("Please correct the errors above")>>]
                        /\ lastOp' = [op |-> "submit", tab |-> t, path |-> "rejected", arg |-> ""]
                        /\ UNCHANGED <<phase, pending, mailCalls>>
                   ELSE IF ~emailjsLoaded
                   THEN \* sendEmail throws before any call; catch, then finally
                        /\ formState' = [formState EXCEPT
                                ![t].validationErrors = v.validationErrors,
                                ![t].isSubmitting = FALSE]
                        /\ notices' = [notices EXCEPT ![t] = <<FailedNotice>>]
                        /\ lastOp' = [op |-> "submit", tab |-> t, path |-> "mailUnavailable", arg |-> ""]
                        /\ UNCHANGED <<phase, pending, mailCalls>>
                   ELSE /\ formState' = [formState EXCEPT
                                ![t].validationErrors = v.validationErrors,
                                ![t].isSubmitting = TRUE]
                        /\ pending' = [pending EXCEPT ![t] = collectFormData(fields[t])]
                        /\ phase' = [phase EXCEPT ![t] = "sending"]
                        /\ mailCalls' = mailCalls + 1
                        /\ notices' = [notices EXCEPT ![t] = <<>>]
                        /\ lastOp' = [op |-> "submit", tab |-> t, path |-> "sending", arg |-> ""]
    /\ UNCHANGED <<now, openTabs, fields, storageAvailable, emailjsLoaded,
                   supabaseGlobal, storeCalls, acceptedAt>>

\* The tail of handleFormSubmit's try block: recordSubmission, showSuccess,
\* resetForm, and the finally clause.
CompleteSubmission(t) ==
    /\ localStore' = recordSubmission(localStore, storageAvailable, now)
    /\ acceptedAt' = Append(acceptedAt, now)
    /\ notices' = [notices EXCEPT ![t] = <<SentNotice>>]
    /\ fields' = [fields EXCEPT ![t] = EmptyForm]
    /\ formState' = [formState EXCEPT ![t] =
            [isSubmitting |-> FALSE, validationErrors |-> <<>>]]
    /\ phase' = [phase EXCEPT ![t] = "idle"]
    /\ pending' = [pending EXCEPT ![t] = Null]

\* The catch clause without the finally clause: isSubmitting is left set.
FailSubmission_NoFinally(t) ==
    /\ notices' = [notices EXCEPT ![t] = <<FailedNotice>>]
    /\ phase' = [phase EXCEPT ![t] = "idle"]
    /\ pending' = [pending EXCEPT ![t] = Null]
    /\ UNCHANGED <<fields, formState, localStore, acceptedAt>>

\* The catch and finally clauses of handleFormSubmit.
FailSubmission(t) ==
    /\ notices' = [notices EXCEPT ![t] = <<FailedNotice>>]
    /\ formState' = [formState EXCEPT ![t].isSubmitting = FALSE]
    /\ phase' = [phase EXCEPT ![t] = "idle"]
    /\ pending' = [pending EXCEPT ![t] = Null]
    /\ UNCHANGED <<fields, localStore, acceptedAt>>

\* sendEmail resumes with the mail service's answer; on success storeMessage starts.
sendEmail(t, response) ==
    /\ UNCHANGED <<backendVars, pageVars>>
    /\ phase[t] = "sending"
    /\ IF response.settled = "resolved" /\ response.status = 200
       THEN IF supabaseGlobal = "client"
            THEN \* the insert is issued and awaited
                 /\ storeCalls' = storeCalls + 1
                 /\ phase' = [phase EXCEPT ![t] = "storing"]
                 /\ lastOp' = [op |-> "mailSettled", tab |-> t, path |-> "storing",
                            arg |-> MailAnswer(response)]
                 /\ UNCHANGED <<fields, formState, pending, notices, localStore, acceptedAt>>
            ELSE \* window.supabase is undefined, or has no from(): nothing is issued
                 /\ CompleteSubmission(t)
                 /\ lastOp' = [op |-> "mailSettled", tab |-> t, path |-> "accepted",
                            arg |-> MailAnswer(response)]
                 /\ UNCHANGED storeCalls
       ELSE /\ FailSubmission(t)
            /\ lastOp' = [op |-> "mailSettled", tab |-> t, path |-> "failed",
                            arg |-> MailAnswer(response)]
            /\ UNCHANGED storeCalls
    /\ UNCHANGED <<now, openTabs, storageAvailable, emailjsLoaded, supabaseGlobal, mailCalls>>

\* storeMessage letting a failed insert reach handleFormSubmit's catch clause.
storeMessage_Rethrow(t, response) ==
    /\ UNCHANGED <<backendVars, pageVars>>
    /\ phase[t] = "storing"
    /\ IF response = "ok" THEN CompleteSubmission(t) ELSE FailSubmission(t)
    /\ lastOp' = [op |-> "storeSettled", tab |-> t,
                  path |-> IF response = "ok" THEN "accepted" ELSE "failed",
                  arg |-> response]
    /\ UNCHANGED <<now, openTabs, storageAvailable, emailjsLoaded, supabaseGlobal,
                   mailCalls, storeCalls>>

\* storeMessage resumes with the store's answer; every answer is swallowed.
storeMessage(t, response) ==
    /\ UNCHANGED <<backendVars, pageVars>>
    /\ phase[t] = "storing"
    /\ CompleteSubmission(t)
    /\ lastOp' = [op |-> "storeSettled", tab |-> t, path |-> "accepted", arg |-> response]
    /\ UNCHANGED <<now, openTabs, storageAvailable, emailjsLoaded, supabaseGlobal,
                   mailCalls, storeCalls>>

Advance(limit, step) ==
    /\ now < limit * step
    /\ now' = now + step
    /\ lastOp' = [op |-> "tick", tab |-> 0, path |-> "tick", arg |-> ""]
    /\ UNCHANGED <<formVars, backendVars, pageVars>>

Tick == Advance(MaxTicks, TickMs)

FormNext ==
    \/ \E t \in openTabs : \E f \in FormInputs : FillForm(t, f)
    \/ \E t \in openTabs : handleFormSubmit(t)
    \/ \E t \in openTabs : \E r \in MailResponses : sendEmail(t, r)
    \/ \E t \in openTabs : \E r \in StoreResponses : storeMessage(t, r)
    \/ Tick

InitForm ==
    /\ now = 0
    /\ lastOp = [op |-> "init", tab |-> 0, path |-> "init", arg |-> ""]
    /\ FormInit
    /\ BackendInit
    /\ PageInit
    /\ supabaseClient = "null"

SpecForm == InitForm /\ [][FormNext]_vars

(***************************************************************************)
(* Properties of the contact form.                                         *)
(***************************************************************************)
\* A step in which handleFormSubmit runs in tab t past its isSubmitting test.
SubmitStep(t) ==
    /\ lastOp'.op = "submit"
    /\ lastOp'.tab = t
    /\ ~formState[t].isSubmitting

\* The form values pass every check other than the rate limit.
OtherwiseValid(f) ==
    /\ f.website = <<>>
    /\ DOMAIN ValidationErrorsOf(f) = {}
    /\ checkMessageContent(f.message)

\* Submissions accepted during the hour that ends now.
RecentAccepted == Len(RecentOf(acceptedAt, now - OneHour))

\* The step adds no timestamp to the persisted history.
NoTimestampRecorded ==
    /\ acceptedAt' = acceptedAt
    /\ Len(localStore'.value) <= Len(localStore.value)
    /\ \A i \in DOMAIN localStore'.value :
           \E j \in DOMAIN localStore.value : localStore.value[j] = localStore'.value[i]

\* C1: a submit event whose honeypot field is non-empty ends without an
\* emailjs.send call, without a contact_messages insert and without a recorded
\* timestamp, whatever the other fields hold.
C1_HoneypotDropsSubmission ==
    [][\A t \in AllTabs :
          (SubmitStep(t) /\ fields[t].website # <<>>) =>
              /\ mailCalls' = mailCalls
              /\ storeCalls' = storeCalls
              /\ localStore' = localStore
              /\ acceptedAt' = acceptedAt
              /\ phase'[t] = "idle"
              /\ ~formState'[t].isSubmitting]_vars

\* A bot's submission (honeypot filled, the other fields valid, mail service
\* loaded) has been handled and rejected.
C1_Witness ==
    \E t \in openTabs :
        /\ lastOp = [op |-> "submit", tab |-> t, path |-> "rejected", arg |-> ""]
        /\ fields[t] = [ValidForm EXCEPT !.website = <<"x">>]
        /\ emailjsLoaded

\* What the rate limit does to an otherwise-valid submission in a single tab:
\* under the ceiling it passes on to the mail service ...
UnderCeilingPasses(t) ==
    RecentAccepted < maxSubmissionsPerHour =>
        /\ lastOp'.path # "rejected"
        /\ emailjsLoaded => (lastOp'.path = "sending" /\ mailCalls' = mailCalls + 1)

\* ... and at the ceiling it is rejected with no mail and no store call.
AtCeilingRejected(t) ==
    RecentAccepted >= maxSubmissionsPerHour =>
        /\ lastOp'.path = "rejected"
        /\ mailCalls' = mailCalls
        /\ storeCalls' = storeCalls
        /\ phase'[t] = "idle"

\* C2 as stated: in a single tab starting from an empty history, each of the
\* first maxSubmissionsPerHour otherwise-valid submissions of a rolling hour is
\* accepted, and once that many were accepted within the last hour the next one
\* is rejected without a mail or store call.
C2_Original ==
    [][\A t \in AllTabs :
          (openTabs = {t} /\ SubmitStep(t) /\ OtherwiseValid(fields[t])) =>
              (UnderCeilingPasses(t) /\ AtCeilingRejected(t))]_vars

\* C2 as amended: the same while the local store is readable and writable;
\* while it is unavailable the history reads as empty and no submission is
\* rejected by the rate limit.
C2_RateLimitWhileStoreAvailable ==
    [][\A t \in AllTabs :
          (openTabs = {t} /\ SubmitStep(t) /\ OtherwiseValid(fields[t])) =>
              /\ UnderCeilingPasses(t)
              /\ storageAvailable => AtCeilingRejected(t)
              /\ ~storageAvailable => lastOp'.path # "rejected"]_vars

\* The ceiling has been reached within the hour and a further valid submission
\* was turned away by the rate limit.
C2_Witness ==
    \E t \in openTabs :
        /\ lastOp = [op |-> "submit", tab |-> t, path |-> "rejected", arg |-> ""]
        /\ fields[t] = ValidForm
        /\ RecentAccepted >= maxSubmissionsPerHour
        /\ notices[t][1] = ErrorNotice("Too many submissions. Please wait before trying again.")

\* A submission whose other fields are valid, with an empty honeypot, under the
\* rate limit.
SubmitsWithName(t, name) ==
    /\ SubmitStep(t)
    /\ fields[t] = [ValidForm EXCEPT !.name = name]
    /\ checkRateLimit(localStore, storageAvailable, now).ok

RejectedForShortName(t) ==
    /\ lastOp'.path = "rejected"
    /\ "name" \in DOMAIN formState'[t].validationErrors
    /\ formState'[t].validationErrors["name"] = "Name must be at least 2 characters"
    /\ mailCalls' = mailCalls
    /\ phase'[t] = "idle"

\* C7 as stated: a submission with name "Jo" is rejected with "Name must be at
\* least 2 characters" and the mail service is never invoked for it.
C7_Original ==
    [][\A t \in AllTabs : SubmitsWithName(t, NameJo) => RejectedForShortName(t)]_vars

\* C7 as amended: the one-character name "J" is rejected with "Name must be at
\* least 2 characters" and never sent; the two-character name "Jo" meets the
\* minimum, raises no name error and is passed on to the mail service.
C7_NameMinimumIsTwo ==
    [][\A t \in AllTabs :
          /\ SubmitsWithName(t, NameJ) => RejectedForShortName(t)
          /\ SubmitsWithName(t, NameJo) =>
                /\ "name" \notin DOMAIN formState'[t].validationErrors
                /\ lastOp'.path # "rejected"
                /\ emailjsLoaded => mailCalls' = mailCalls + 1]_vars

\* The name "J" has been submitted and rejected with the minimum-length error.
C7_Witness ==
    \E t \in openTabs :
        /\ lastOp = [op |-> "submit", tab |-> t, path |-> "rejected", arg |-> ""]
        /\ fields[t] = [ValidForm EXCEPT !.name = NameJ]
        /\ formState[t].validationErrors =
               [n \in {"name"} |-> "Name must be at least 2 characters"]

\* A step in which tab t's mail send fails: the answer is not status 200, the
\* call is rejected, or window.emailjs is missing.
MailFailsStep(t) ==
    \/ /\ lastOp'.op = "mailSettled"
       /\ lastOp'.tab = t
       /\ lastOp'.arg # "200"
    \/ /\ SubmitStep(t)
       /\ lastOp'.path # "rejected"
       /\ ~emailjsLoaded

\* C8: when the mail send fails, the store is not called, no timestamp is
\* recorded, an error notification is shown, the fields keep their values and
\* isSubmitting is false again, so that a retry can be submitted.
C8_MailFailureIsHard ==
    [][\A t \in AllTabs :
          MailFailsStep(t) =>
              /\ storeCalls' = storeCalls
              /\ NoTimestampRecorded
              /\ notices'[t] = <<FailedNotice>>
              /\ fields'[t] = fields[t]
              /\ ~formState'[t].isSubmitting
              /\ phase'[t] = "idle"]_vars

\* The mail service answered a valid submission with status 400.
C8_Witness ==
    \E t \in openTabs :
        /\ lastOp = [op |-> "mailSettled", tab |-> t, path |-> "failed", arg |-> "400"]
        /\ fields[t] = ValidForm
        /\ notices[t] = <<FailedNotice>>
        /\ ~formState[t].isSubmitting

\* A step in which the mail send has succeeded and the persistence call of
\* tab t fails: the insert answers with an error or throws, or window.supabase
\* has no from() and the call throws before reaching the store.
PersistenceFailsStep(t) ==
    \/ /\ lastOp'.op = "storeSettled"
       /\ lastOp'.tab = t
       /\ lastOp'.arg \in {"error", "thrown"}
    \/ /\ lastOp'.op = "mailSettled"
       /\ lastOp'.tab = t
       /\ lastOp'.arg = "200"
       /\ supabaseGlobal = "api"

AcceptedDespiteStore(t) ==
    /\ notices'[t] = <<SentNotice>>
    /\ acceptedAt' = Append(acceptedAt, now)
    /\ mailCalls' = mailCalls
    /\ ~formState'[t].isSubmitting
    /\ phase'[t] = "idle"

TimestampPersisted ==
    /\ localStore'.exists
    /\ localStore'.value = Append(getSubmissionHistory(localStore, TRUE), now)

\* C9 as stated: when the mail send succeeds and the persistence call fails,
\* the submission completes as accepted, the failure is swallowed, the
\* timestamp is recorded, the success message is shown and the mail send is
\* neither undone nor repeated.
C9_Original ==
    [][\A t \in AllTabs :
          PersistenceFailsStep(t) => (AcceptedDespiteStore(t) /\ TimestampPersisted)]_vars

\* C9 as amended: the same, the timestamp being recorded when the local store
\* takes the write; when the write throws the history is left as it was.
C9_StoreFailureSwallowed ==
    [][\A t \in AllTabs :
          PersistenceFailsStep(t) =>
              /\ AcceptedDespiteStore(t)
              /\ storageAvailable => TimestampPersisted
              /\ ~storageAvailable => localStore' = localStore]_vars

\* The insert answered with an error and the submission completed as accepted,
\* its timestamp in the local store.
C9_Witness ==
    \E t \in openTabs :
        /\ lastOp = [op |-> "storeSettled", tab |-> t, path |-> "accepted", arg |-> "error"]
        /\ notices[t] = <<SentNotice>>
        /\ storageAvailable
        /\ Len(localStore.value) >= 1
        /\ localStore.value[Len(localStore.value)] = now

(***************************************************************************)
(* The CRUD mediator: validation helpers.                                  *)
(***************************************************************************)
Rep(c, n) == [i \in 1..n |-> c]

IndexOf(s, c) ==
    IF \E i \in DOMAIN s : s[i] = c
    THEN CHOOSE i \in DOMAIN s : s[i] = c /\ \A j \in 1..(i - 1) : s[j] # c
    ELSE 0

Without(s, chars) == SelectSeq(s, LAMBDA c : c \notin chars)

\* str.trim().replace(/[<>]/g, '')
sanitizeString(str) == Without(Trim(str), {"<", ">"})

\* new URL(url) without a base: the text needs a scheme, and a scheme of the
\* web (http, https, ws, wss, ftp) needs a host.
SchemeChar == Alnum \cup {"+", "-", "."}
SpecialSchemes == {<<"h","t","t","p">>, <<"h","t","t","p","s">>, <<"w","s">>, <<"w","s","s">>, <<"f","t","p">>}
ForbiddenHostChar == {" ", "#", "%", "<", ">", "[", "]", "^", "|"}

RECURSIVE SkipSlashes(_)
SkipSlashes(s) ==
    IF s # <<>> /\ Head(s) \in {"/", "\\"} THEN SkipSlashes(Tail(s)) ELSE s

RECURSIVE UpToDelimiter(_)
UpToDelimiter(s) ==
    IF s = <<>> \/ Head(s) \in {"/", "\\", "?", "#"} THEN <<>>
    ELSE <<Head(s)>> \o UpToDelimiter(Tail(s))

HostParses(rest) ==
    LET authority == UpToDelimiter(SkipSlashes(rest))
        at == IndexOf(authority, "@")
        hostport == IF at = 0 THEN authority
                    ELSE SubSeq(authority, at + 1, Len(authority))
        colon == IndexOf(hostport, ":")
        host == IF colon = 0 THEN hostport ELSE SubSeq(hostport, 1, colon - 1)
        port == IF colon = 0 THEN <<>> ELSE SubSeq(hostport, colon + 1, Len(hostport))
    IN  /\ host # <<>>
        /\ \A i \in DOMAIN host : host[i] \notin ForbiddenHostChar \cup {"@"}
        /\ \A i \in DOMAIN port : port[i] \in Digit

isValidUrl(url) ==
    LET s == Trim(url)
        colon == IndexOf(s, ":")
    IN  /\ colon > 1
        /\ s[1] \in Lower \cup Upper
        /\ \A i \in 2..(colon - 1) : s[i] \in SchemeChar
        /\ ToLowerCase(SubSeq(s, 1, colon - 1)) \in SpecialSchemes
              => HostParses(SubSeq(s, colon + 1, Len(s)))

Passed == [threw |-> FALSE, message |-> ""]
Thrown(message) == [threw |-> TRUE, message |-> message]

\* validateUrl(url): throws unless the text parses
validateUrl(url) ==
    IF ~isValidUrl(url) THEN Thrown("Invalid URL format") ELSE Passed

ProjectNameMin == 3
ProjectNameMax == 100
ProjectDescriptionMin == 10
ProjectDescriptionMax == 500
CertificateNameMin == 3
CertificateNameMax == 100
CertificateDescriptionMin == 10
CertificateDescriptionMax == 300
CertificateIssuerMin == 2
CertificateIssuerMax == 100

\* A missing field and the empty text are both falsy, and are both <<>> here.
validateProjectData(data) ==
    IF data.name = <<>> \/ Len(data.name) < ProjectNameMin
                        \/ Len(data.name) > ProjectNameMax
    THEN Thrown("Project name must be between 3 and 100 characters")
    ELSE IF data.description = <<>> \/ Len(data.description) < ProjectDescriptionMin
                                    \/ Len(data.description) > ProjectDescriptionMax
    THEN Thrown("Project description must be between 10 and 500 characters")
    ELSE IF data.url = <<>> \/ ~isValidUrl(data.url)
    THEN Thrown("Valid project URL is required")
    ELSE Passed

validateCertificateData(data) ==
    IF data.name = <<>> \/ Len(data.name) < CertificateNameMin
                        \/ Len(data.name) > CertificateNameMax
    THEN Thrown("Certificate name must be between 3 and 100 characters")
    ELSE IF data.description = <<>> \/ Len(data.description) < CertificateDescriptionMin
                                    \/ Len(data.description) > CertificateDescriptionMax
    THEN Thrown("Certificate description must be between 10 and 300 characters")
    ELSE IF data.image_url = <<>> \/ ~isValidUrl(data.image_url)
    THEN Thrown("Valid certificate image URL is required")
    ELSE IF data.issuer = <<>> \/ Len(data.issuer) < CertificateIssuerMin
                               \/ Len(data.issuer) > CertificateIssuerMax
    THEN Thrown("Certificate issuer must be between 2 and 100 characters")
    ELSE Passed

\* The object literal createProject and updateProject hand to the store; its
\* optional image_url goes through validateUrl, which may throw.
ProjectPayloadCheck(projectData) ==
    IF projectData.image_url # <<>> THEN validateUrl(projectData.image_url) ELSE Passed

ProjectPayload(projectData) ==
    [name |-> sanitizeString(projectData.name),
     description |-> sanitizeString(projectData.description),
     url |-> projectData.url,
     image_url |-> projectData.image_url,
     technologies |-> <<>>,
     category |-> sanitizeString(IF projectData.category = <<>> THEN <<"w","e","b">>
                                 ELSE projectData.category),
     is_featured |-> FALSE]

CertificatePayloadCheck(certData) ==
    IF certData.credential_url # <<>> THEN validateUrl(certData.credential_url) ELSE Passed

CertificatePayload(certData) ==
    [name |-> sanitizeString(certData.name),
     description |-> sanitizeString(certData.description),
     image_url |-> certData.image_url,
     issuer |-> sanitizeString(certData.issuer),
     credential_id |-> sanitizeString(certData.credential_id),
     credential_url |-> certData.credential_url]

\* The store's trigger on projects: BEFORE UPDATE, for each row updated.
update_updated_at_column(row, t) == [row EXCEPT !.updated_at = t]

(***************************************************************************)
(* The CRUD mediator: the inputs tried, and the operations.                *)
(***************************************************************************)
UrlOk == <<"h","t","t","p","s",":","/","/","x",".","i","o">>
UrlMail == <<"m","a","i","l","t","o",":","a","@","x",".","i","o">>
UrlNoScheme == <<"n","o","t","-","a","-","u","r","l">>
UrlNoHost == <<"h","t","t","p",":","/","/">>
UrlRelative == <<"/","i","m","g","/","a",".","p","n","g">>

ProjectOk ==
    [name |-> Rep("a", ProjectNameMin), description |-> Rep("d", ProjectDescriptionMin),
     url |-> UrlOk, image_url |-> <<>>, category |-> <<>>]

ProjectMax ==
    [ProjectOk EXCEPT !.name = Rep("a", ProjectNameMax),
                      !.description = Rep("d", ProjectDescriptionMax),
                      !.url = UrlMail, !.image_url = UrlOk]

ProjectInputs ==
    { ProjectOk, ProjectMax,
      [ProjectOk EXCEPT !.name = <<" ","<","a","b",">"," ">>],
      [ProjectOk EXCEPT !.name = Rep("a", ProjectNameMin - 1)],
      [ProjectOk EXCEPT !.name = Rep("a", ProjectNameMax + 1)],
      [ProjectOk EXCEPT !.description = Rep("d", ProjectDescriptionMin - 1)],
      [ProjectOk EXCEPT !.description = Rep("d", ProjectDescriptionMax + 1)],
      [ProjectOk EXCEPT !.url = UrlNoScheme],
      [ProjectOk EXCEPT !.url = UrlNoHost],
      [ProjectOk EXCEPT !.url = <<>>],
      [ProjectOk EXCEPT !.image_url = UrlNoScheme],
      [ProjectOk EXCEPT !.image_url = UrlRelative],
      [ProjectOk EXCEPT !.name = <<>>, !.description = <<>>, !.url = UrlNoScheme] }

CertificateOk ==
    [name |-> Rep("a", CertificateNameMin),
     description |-> Rep("d", CertificateDescriptionMin),
     image_url |-> UrlOk, issuer |-> Rep("i", CertificateIssuerMin),
     credential_id |-> <<>>, credential_url |-> <<>>]

CertificateInputs ==
    { CertificateOk,
      [CertificateOk EXCEPT !.name = Rep("a", CertificateNameMax),
                            !.description = Rep("d", CertificateDescriptionMax),
                            !.issuer = Rep("i", CertificateIssuerMax),
                            !.credential_url = UrlOk],
      [CertificateOk EXCEPT !.name = Rep("a", CertificateNameMin - 1)],
      [CertificateOk EXCEPT !.name = Rep("a", CertificateNameMax + 1)],
      [CertificateOk EXCEPT !.description = Rep("d", CertificateDescriptionMin - 1)],
      [CertificateOk EXCEPT !.description = Rep("d", CertificateDescriptionMax + 1)],
      [CertificateOk EXCEPT !.issuer = Rep("i", CertificateIssuerMin - 1)],
      [CertificateOk EXCEPT !.issuer = Rep("i", CertificateIssuerMax + 1)],
      [CertificateOk EXCEPT !.image_url = <<>>],
      [CertificateOk EXCEPT !.image_url = UrlNoScheme],
      [CertificateOk EXCEPT !.credential_url = UrlNoScheme] }

\* What the store answers to a request: the rows, or an error object.
CrudResponses == {"ok", "error"}

ClientMissing == "Cannot read properties of null (reading 'from')"
StoreError == "store error"

\* The operation threw before a request was issued.
CrudThrown(op, message, data) ==
    [op |-> op, ok |-> FALSE, message |-> message, id |-> 0, calls |-> 0, data |-> data]
\* The request was issued and the store answered with an error, which is thrown.
CrudFailed(op, data) ==
    [op |-> op, ok |-> FALSE, message |-> StoreError, id |-> 0, calls |-> 1, data |-> data]
\* The request was issued and the operation returned.
CrudReturned(op, id, data) ==
    [op |-> op, ok |-> TRUE, message |-> "", id |-> id, calls |-> 1, data |-> data]

\* How an operation ends before its request is issued, if it does:
\* validation, then supabaseClient.from, then the payload's validateUrl.
CrudPrecheck(validated, payloadCheck) ==
    IF validated.threw THEN validated
    ELSE IF supabaseClient = "null" THEN Thrown(ClientMissing)
    ELSE payloadCheck

CrudOp(op, path) == [op |-> op, tab |-> 0, path |-> path, arg |-> ""]

\* What the projects table holds under an id.
RowState(id) ==
    IF id \notin DOMAIN projects THEN "missing"
    ELSE IF projects[id].is_active THEN "active" ELSE "inactive"

createProject(projectData, response) ==
    /\ Len(projects) < MaxRows
    /\ LET pre == CrudPrecheck(validateProjectData(projectData),
                               ProjectPayloadCheck(projectData))
       IN IF pre.threw
          THEN /\ crudResult' = CrudThrown("createProject", pre.message, projectData)
               /\ lastOp' = CrudOp("createProject", "thrown")
               /\ UNCHANGED projects
          ELSE IF response = "ok"
          THEN /\ projects' = Append(projects,
                      ProjectPayload(projectData) @@
                      [is_active |-> TRUE, created_at |-> now, updated_at |-> now])
               /\ crudResult' = CrudReturned("createProject", Len(projects) + 1, projectData)
               /\ lastOp' = CrudOp("createProject", "stored")
          ELSE /\ crudResult' = CrudFailed("createProject", projectData)
               /\ lastOp' = CrudOp("createProject", "failed")
               /\ UNCHANGED projects
    /\ UNCHANGED <<now, formVars, pageVars, supabaseClient, certificates, authVars>>

\* updateProject sending is_active: true with the other columns.
updateProject_Reactivating(id, projectData, response) ==
    /\ LET pre == CrudPrecheck(validateProjectData(projectData),
                               ProjectPayloadCheck(projectData))
       IN IF pre.threw
          THEN /\ crudResult' = CrudThrown("updateProject", pre.message, projectData)
               /\ lastOp' = CrudOp("updateProject", "thrown")
               /\ UNCHANGED projects
          ELSE IF response = "ok"
          THEN /\ projects' = [i \in DOMAIN projects |->
                      IF i = id
                      THEN update_updated_at_column(
                               ProjectPayload(projectData) @@
                               [is_active |-> TRUE,
                                created_at |-> projects[i].created_at,
                                updated_at |-> now], now)
                      ELSE projects[i]]
               /\ crudResult' = CrudReturned("updateProject",
                                    IF id \in DOMAIN projects THEN id ELSE 0, projectData)
               /\ lastOp' = CrudOp("updateProject", "stored")
          ELSE /\ crudResult' = CrudFailed("updateProject", projectData)
               /\ lastOp' = CrudOp("updateProject", "failed")
               /\ UNCHANGED projects
    /\ UNCHANGED <<now, formVars, pageVars, supabaseClient, certificates, authVars>>

updateProject(id, projectData, response) ==
    /\ LET pre == CrudPrecheck(validateProjectData(projectData),
                               ProjectPayloadCheck(projectData))
       IN IF pre.threw
          THEN /\ crudResult' = CrudThrown("updateProject", pre.message, projectData)
               /\ lastOp' = CrudOp("updateProject", "thrown")
               /\ UNCHANGED projects
          ELSE IF response = "ok"
          THEN /\ projects' = [i \in DOMAIN projects |->
                      IF i = id
                      THEN update_updated_at_column(
                               ProjectPayload(projectData) @@
                               [is_active |-> projects[i].is_active,
                                created_at |-> projects[i].created_at,
                                updated_at |-> now], now)
                      ELSE projects[i]]
               /\ crudResult' = CrudReturned("updateProject",
                                    IF id \in DOMAIN projects THEN id ELSE 0, projectData)
               /\ lastOp' = CrudOp("updateProject", "stored")
          ELSE /\ crudResult' = CrudFailed("updateProject", projectData)
               /\ lastOp' = CrudOp("updateProject", "failed")
               /\ UNCHANGED projects
    /\ UNCHANGED <<now, formVars, pageVars, supabaseClient, certificates, authVars>>

\* deleteProject removing the row instead of clearing its flag.
deleteProject_Physical(id, response) ==
    /\ IF supabaseClient = "null"
       THEN /\ crudResult' = CrudThrown("deleteProject", ClientMissing, <<>>)
            /\ lastOp' = CrudOp("deleteProject", "thrown")
            /\ UNCHANGED projects
       ELSE IF response = "ok"
       THEN /\ projects' = SelectSeq([i \in DOMAIN projects |->
                                         [projects[i] EXCEPT !.is_active = (i # id)]],
                                     LAMBDA row : row.is_active)
            /\ crudResult' = CrudReturned("deleteProject", id, <<>>)
            /\ lastOp' = [CrudOp("deleteProject", "stored") EXCEPT !.arg = RowState(id)]
       ELSE /\ crudResult' = CrudFailed("deleteProject", <<>>)
            /\ lastOp' = CrudOp("deleteProject", "failed")
            /\ UNCHANGED projects
    /\ UNCHANGED <<now, formVars, pageVars, supabaseClient, certificates, authVars>>

\* update({ is_active: false }).eq('id', id); the operation returns true.
deleteProject(id, response) ==
    /\ IF supabaseClient = "null"
       THEN /\ crudResult' = CrudThrown("deleteProject", ClientMissing, <<>>)
            /\ lastOp' = CrudOp("deleteProject", "thrown")
            /\ UNCHANGED projects
       ELSE IF response = "ok"
       THEN /\ projects' = [i \in DOMAIN projects |->
                   IF i = id
                   THEN update_updated_at_column(
                            [projects[i] EXCEPT !.is_active = FALSE], now)
                   ELSE projects[i]]
            /\ crudResult' = CrudReturned("deleteProject", id, <<>>)
            /\ lastOp' = [CrudOp("deleteProject", "stored") EXCEPT !.arg = RowState(id)]
       ELSE /\ crudResult' = CrudFailed("deleteProject", <<>>)
            /\ lastOp' = CrudOp("deleteProject", "failed")
            /\ UNCHANGED projects
    /\ UNCHANGED <<now, formVars, pageVars, supabaseClient, certificates, authVars>>

createCertificate(certData, response) ==
    /\ Len(certificates) < MaxRows
    /\ LET pre == CrudPrecheck(validateCertificateData(certData),
                               CertificatePayloadCheck(certData))
       IN IF pre.threw
          THEN /\ crudResult' = CrudThrown("createCertificate", pre.message, certData)
               /\ lastOp' = CrudOp("createCertificate", "thrown")
               /\ UNCHANGED certificates
          ELSE IF response = "ok"
          THEN /\ certificates' = Append(certificates,
                      CertificatePayload(certData) @@
                      [is_active |-> TRUE, created_at |-> now, updated_at |-> now])
               /\ crudResult' = CrudReturned("createCertificate",
                                             Len(certificates) + 1, certData)
               /\ lastOp' = CrudOp("createCertificate", "stored")
          ELSE /\ crudResult' = CrudFailed("createCertificate", certData)
               /\ lastOp' = CrudOp("createCertificate", "failed")
               /\ UNCHANGED certificates
    /\ UNCHANGED <<now, formVars, pageVars, supabaseClient, projects, authVars>>

\* The operations under every input tried; the clock stands still.
CrudNext ==
    \/ \E d \in ProjectInputs : \E r \in CrudResponses : createProject(d, r)
    \/ \E id \in 1..MaxRows : \E d \in ProjectInputs : \E r \in CrudResponses :
           updateProject(id, d, r)
    \/ \E id \in 1..MaxRows : \E r \in CrudResponses : deleteProject(id, r)
    \/ \E d \in CertificateInputs : \E r \in CrudResponses : createCertificate(d, r)

\* No contact form is open on the admin page.
FormIdle ==
    /\ FormInit
    /\ storageAvailable = TRUE
    /\ emailjsLoaded = FALSE
    /\ supabaseGlobal = "api"

InitCrud ==
    /\ now = 0
    /\ lastOp = [op |-> "init", tab |-> 0, path |-> "init", arg |-> ""]
    /\ FormIdle
    /\ BackendInit
    /\ PageInit
    /\ supabaseClient \in {"null", "client"}

SpecCrud == InitCrud /\ [][CrudNext]_vars

\* The projects table alone, under creation, update, deletion and time.
ProjectSamples == {ProjectOk, ProjectMax, [ProjectOk EXCEPT !.url = UrlNoScheme]}

CrudTick == Advance(MaxCrudTicks, TickMs)

ProjectsNext ==
    \/ \E d \in ProjectSamples : \E r \in CrudResponses : createProject(d, r)
    \/ \E id \in 1..MaxRows : \E d \in ProjectSamples : \E r \in CrudResponses :
           updateProject(id, d, r)
    \/ \E id \in 1..MaxRows : \E r \in CrudResponses : deleteProject(id, r)
    \/ CrudTick

SpecProjects == InitCrud /\ [][ProjectsNext]_vars

(***************************************************************************)
(* Properties of the CRUD mediator.                                        *)
(***************************************************************************)
\* The fields of an input that break a documented bound.
ProjectFieldsViolated(d) ==
    {f \in {"name", "description", "url", "image_url"} :
        \/ f = "name" /\ (Len(d.name) < 3 \/ Len(d.name) > 100)
        \/ f = "description" /\ (Len(d.description) < 10 \/ Len(d.description) > 500)
        \/ f = "url" /\ ~isValidUrl(d.url)
        \/ f = "image_url" /\ d.image_url # <<>> /\ ~isValidUrl(d.image_url)}

CertificateFieldsViolated(d) ==
    {f \in {"name", "description", "issuer", "image_url", "credential_url"} :
        \/ f = "name" /\ (Len(d.name) < 3 \/ Len(d.name) > 100)
        \/ f = "description" /\ (Len(d.description) < 10 \/ Len(d.description) > 300)
        \/ f = "issuer" /\ (Len(d.issuer) < 2 \/ Len(d.issuer) > 100)
        \/ f = "image_url" /\ ~isValidUrl(d.image_url)
        \/ f = "credential_url" /\ d.credential_url # <<>> /\ ~isValidUrl(d.credential_url)}

\* The field an error message names, "none" when it names no field.
FieldNamedIn(message) ==
    CASE message = "Project name must be between 3 and 100 characters" -> "name"
      [] message = "Project description must be between 10 and 500 characters" -> "description"
      [] message = "Valid project URL is required" -> "url"
      [] message = "Certificate name must be between 3 and 100 characters" -> "name"
      [] message = "Certificate description must be between 10 and 300 characters"
            -> "description"
      [] message = "Valid certificate image URL is required" -> "image_url"
      [] message = "Certificate issuer must be between 2 and 100 characters" -> "issuer"
      [] OTHER -> "none"

\* The operation of this step failed without a store call, naming a field of `violated`.
RejectedNaming(violated) ==
    /\ ~crudResult'.ok
    /\ crudResult'.calls = 0
    /\ FieldNamedIn(crudResult'.message) \in violated

\* C3: with the client constructed, every createProject, updateProject or
\* createCertificate whose input breaks a documented length or format bound
\* fails before any store call, with an error message that names a violated field.
C3_Original ==
    [][ supabaseClient = "client" =>
          /\ (/\ lastOp'.op \in {"createProject", "updateProject"}
              /\ ProjectFieldsViolated(crudResult'.data) # {})
                 => RejectedNaming(ProjectFieldsViolated(crudResult'.data))
          /\ (/\ lastOp'.op = "createCertificate"
              /\ CertificateFieldsViolated(crudResult'.data) # {})
                 => RejectedNaming(CertificateFieldsViolated(crudResult'.data)) ]_vars

\* A step in which deleteProject(id) got the store's answer to its update.
DeleteStored(id) ==
    /\ lastOp'.op = "deleteProject"
    /\ lastOp'.path = "stored"
    /\ crudResult'.id = id

\* No row leaves the projects table, and no row changes its place or creation time.
RowsKept ==
    /\ Len(projects') >= Len(projects)
    /\ \A i \in DOMAIN projects : projects'[i].created_at = projects[i].created_at

\* A row as the caller reads it: everything but the store's updated_at stamp.
Content(row) == [row EXCEPT !.updated_at = 0]

\* C6 as stated: deleteProject never removes a row, only clears the active
\* flag, and applied to an already-inactive project it leaves the store
\* unchanged and returns true as the first deletion did.
C6_Original ==
    [][ /\ RowsKept
        /\ \A id \in 1..MaxRows :
              (DeleteStored(id) /\ RowState(id) = "inactive")
                  => /\ projects' = projects
                     /\ crudResult' = CrudReturned("deleteProject", id, <<>>) ]_vars

\* C6 amended: deleteProject never removes a row; when the store answers its
\* update it clears the target's active flag, changes no other row, and returns
\* true; applied to an already-inactive project it changes nothing but the
\* updated_at stamp the store's trigger refreshes, and returns true again.
C6_SoftDeleteIdempotent ==
    [][ /\ RowsKept
        /\ \A id \in 1..MaxRows :
              DeleteStored(id)
                  => /\ crudResult' = CrudReturned("deleteProject", id, <<>>)
                     /\ DOMAIN projects' = DOMAIN projects
                     /\ \A i \in DOMAIN projects :
                           IF i = id
                           THEN /\ ~projects'[i].is_active
                                /\ Content(projects'[i]) =
                                      Content([projects[i] EXCEPT !.is_active = FALSE])
                                /\ projects'[i].updated_at = now
                           ELSE projects'[i] = projects[i]
                     /\ RowState(id) = "inactive"
                           => \A i \in DOMAIN projects :
                                 Content(projects'[i]) = Content(projects[i]) ]_vars

\* A second deletion of a project has returned, later than the first.
C6_Witness ==
    /\ lastOp.op = "deleteProject"
    /\ lastOp.path = "stored"
    /\ lastOp.arg = "inactive"
    /\ crudResult.ok
    /\ crudResult.id \in DOMAIN projects
    /\ ~projects[crudResult.id].is_active
    /\ projects[crudResult.id].updated_at > projects[crudResult.id].created_at

(***************************************************************************)
(* The session gate: collaborators and helpers.                            *)
(***************************************************************************)
maxFailedAttempts == 3
require2FA == TRUE

\* The auth provider's accounts, and the store's admin_users table.
Accounts ==
    { [email |-> "admin@x.io", password |-> "pw-admin", id |-> "u-admin"],
      [email |-> "former@x.io", password |-> "pw-former", id |-> "u-former"],
      [email |-> "visitor@x.io", password |-> "pw-visitor", id |-> "u-visitor"] }

AdminUsers ==
    { [user_id |-> "u-admin", is_active |-> TRUE],
      [user_id |-> "u-former", is_active |-> FALSE] }

EmailOf(userId) == (CHOOSE a \in Accounts : a.id = userId).email

\* The calls of adminLogin that a collaborator may fail to answer.
GateCalls == {"blockQuery", "tallyQuery", "blockInsert", "attemptInsert",
              "adminQuery", "clear", "auth"}

\* The store answers a call: the client exists and the call does not fail.
StoreAnswers(faults, call) == supabaseClient = "client" /\ call \notin faults

\* getUserIP: the lookup service's answer, or the fallback.
getUserIP(ip, answered) == IF answered THEN ip ELSE "unknown"

\* isIPBlocked looking at no row at all.
isIPBlocked_Never(address, faults) == FALSE

\* isIPBlocked: data !== null, and false when the query fails.
isIPBlocked(address, faults) ==
    StoreAnswers(faults, "blockQuery") /\ address \in blockedIps

\* getFailedLoginAttempts counting the rows of every address.
getFailedLoginAttempts_AnyAddress(address, faults, t) ==
    IF StoreAnswers(faults, "tallyQuery")
    THEN Cardinality({<<a, i>> \in AllAddresses \X (1..MaxLoginRows) :
                         i \in DOMAIN loginAttempts[a] /\ loginAttempts[a][i] >= t - OneHour})
    ELSE 0

\* getFailedLoginAttempts: the address's rows of the last hour; 0 when the query fails.
getFailedLoginAttempts(address, faults, t) ==
    IF StoreAnswers(faults, "tallyQuery")
    THEN Len(SelectSeq(loginAttempts[address], LAMBDA c : c >= t - OneHour))
    ELSE 0

\* blockIP: the insert, then sendIPBlockNotification unless the insert failed
\* (blocked_ips.ip_address is UNIQUE).
blockIP(address, faults) ==
    IF StoreAnswers(faults, "blockInsert") /\ address \notin blockedIps
    THEN [rows |-> blockedIps \cup {address}, notified |-> TRUE]
    ELSE [rows |-> blockedIps, notified |-> FALSE]

recordFailedLogin(address, faults, t) ==
    IF StoreAnswers(faults, "attemptInsert")
    THEN [loginAttempts EXCEPT ![address] = Append(@, t)]
    ELSE loginAttempts

clearFailedLoginAttempts(address, faults) ==
    IF StoreAnswers(faults, "clear")
    THEN [loginAttempts EXCEPT ![address] = <<>>]
    ELSE loginAttempts

\* supabaseClient.auth.signInWithPassword: { data, error }
signInWithPassword(credentials, faults) ==
    IF "auth" \in faults
    THEN [error |-> "Failed to fetch", user |-> "none"]
    ELSE IF \E a \in Accounts : a.email = credentials.email /\ a.password = credentials.password
    THEN [error |-> "",
          user |-> (CHOOSE a \in Accounts : a.email = credentials.email).id]
    ELSE [error |-> "Invalid login credentials", user |-> "none"]

verifyAdminPrivileges(userId, faults) ==
    /\ StoreAnswers(faults, "adminQuery")
    /\ \E row \in AdminUsers : row.user_id = userId /\ row.is_active

\* adminLogin leaving the provider's session of the user it turned away.
signOut_Skipped(user) == [authUser |-> user, adminSession |-> adminSession]

\* supabaseClient.auth.signOut(), and the SIGNED_OUT event it raises.
signOut(user) == [authUser |-> "none", adminSession |-> NoSession]

\* createAdminSession marking the session as verified.
createAdminSession_Verified(user, t) ==
    [exists |-> TRUE, user |-> user, createdAt |-> t, is2FAVerified |-> TRUE]

createAdminSession(user, t) ==
    [exists |-> TRUE, user |-> user, createdAt |-> t, is2FAVerified |-> FALSE]

\* validate2FACode accepting every six-character code.
validate2FACode_AnySix(email, code) == code \in {"123456", "654321"}

validate2FACode(email, code) == code = "123456"

isAdminLoggedIn == adminSession.exists /\ adminSession.is2FAVerified

LoginRows ==
    Cardinality({<<a, i>> \in AllAddresses \X (1..MaxLoginRows) :
                    i \in DOMAIN loginAttempts[a]})

(***************************************************************************)
(* The session gate: the inputs tried, and the operations.                 *)
(***************************************************************************)
CredentialInputs ==
    { [email |-> "", password |-> ""],
      [email |-> "admin@x.io", password |-> ""],
      [email |-> "admin@x.io", password |-> "guess"],
      [email |-> "admin@x.io", password |-> "pw-admin"],
      [email |-> "former@x.io", password |-> "pw-former"],
      [email |-> "visitor@x.io", password |-> "pw-visitor"] }

\* Which of the three getUserIP calls of an attempt the lookup service answers.
LookupInputs ==
    { <<TRUE, TRUE, TRUE>>, <<FALSE, FALSE, FALSE>>,
      <<FALSE, TRUE, TRUE>>, <<TRUE, TRUE, FALSE>> }

\* Which collaborator calls of an attempt fail.
FaultInputs ==
    { {}, {"blockQuery"}, {"tallyQuery"}, {"blockInsert"}, {"attemptInsert"},
      {"adminQuery"}, {"clear"}, {"auth"}, GateCalls }

CodeInputs == {"123456", "654321", "12345", ""}

ClientMissingAuth == "Cannot read properties of null (reading 'auth')"

AuthOp(op, path, arg) == [op |-> op, tab |-> 0, path |-> path, arg |-> arg]

\* The body of adminLogin, as a caller awaits it.
adminLoginCall(credentials, ip, lookups, faults) ==
    LET a1 == getUserIP(ip, lookups[1])
        a2 == getUserIP(ip, lookups[2])
        a3 == getUserIP(ip, lookups[3])
        clean == /\ supabaseClient = "client"
                 /\ faults = {}
                 /\ \A i \in 1..3 : lookups[i]
        Result(ok, message, contacted, user, notified) ==
            [op |-> "adminLogin", ok |-> ok, message |-> message,
             contacted |-> contacted, user |-> user, notified |-> notified,
             address |-> a1, clean |-> clean]
    IN
    /\ LoginRows < MaxLoginRows
    /\ IF isIPBlocked(a1, faults)
       THEN /\ authResult' = Result(FALSE, "Access denied: IP address is blocked",
                                    FALSE, "none", FALSE)
            /\ lastOp' = AuthOp("adminLogin", "blocked", "")
            /\ UNCHANGED <<adminSession, authUser, loginAttempts, blockedIps>>
       ELSE IF getFailedLoginAttempts(a2, faults, now) >= maxFailedAttempts
       THEN /\ blockedIps' = blockIP(a3, faults).rows
            /\ authResult' = Result(FALSE,
                                 "Too many failed attempts. IP address has been blocked.",
                                 FALSE, "none", blockIP(a3, faults).notified)
            /\ lastOp' = AuthOp("adminLogin", "tooMany", "")
            /\ UNCHANGED <<adminSession, authUser, loginAttempts>>
       ELSE IF credentials.email = "" \/ credentials.password = ""
       THEN /\ loginAttempts' = recordFailedLogin(a3, faults, now)
            /\ authResult' = Result(FALSE, "Email and password are required",
                                    FALSE, "none", FALSE)
            /\ lastOp' = AuthOp("adminLogin", "incomplete", "")
            /\ UNCHANGED <<adminSession, authUser, blockedIps>>
       ELSE IF supabaseClient = "null"
       THEN /\ authResult' = Result(FALSE, ClientMissingAuth, FALSE, "none", FALSE)
            /\ lastOp' = AuthOp("adminLogin", "noClient", "")
            /\ UNCHANGED <<adminSession, authUser, loginAttempts, blockedIps>>
       ELSE LET signIn == signInWithPassword(credentials, faults) IN
            IF signIn.error # ""
            THEN /\ loginAttempts' = recordFailedLogin(a3, faults, now)
                 /\ authResult' = Result(FALSE, signIn.error, TRUE, "none", FALSE)
                 /\ lastOp' = AuthOp("adminLogin", "refused", "")
                 /\ UNCHANGED <<adminSession, authUser, blockedIps>>
            ELSE IF ~verifyAdminPrivileges(signIn.user, faults)
            THEN /\ authUser' = signOut(signIn.user).authUser
                 /\ adminSession' = signOut(signIn.user).adminSession
                 /\ loginAttempts' = recordFailedLogin(a3, faults, now)
                 /\ authResult' = Result(FALSE, "Access denied: Admin privileges required",
                                         TRUE, signIn.user, FALSE)
                 /\ lastOp' = AuthOp("adminLogin", "notAdmin", "")
                 /\ UNCHANGED blockedIps
            ELSE /\ loginAttempts' = clearFailedLoginAttempts(a3, faults)
                 /\ adminSession' = createAdminSession(signIn.user, now)
                 /\ authUser' = signIn.user
                 /\ authResult' = Result(TRUE, "", TRUE, signIn.user, FALSE)
                 /\ lastOp' = AuthOp("adminLogin", "loggedIn", "")
                 /\ UNCHANGED blockedIps
    /\ UNCHANGED bystanderVars

adminLogin(credentials, ip, lookups, faults) ==
    /\ adminLoginCall(credentials, ip, lookups, faults)
    /\ UNCHANGED callerVars

VerifyResult(ok, message) ==
    [op |-> "verify2FACode", ok |-> ok, message |-> message, contacted |-> FALSE,
     user |-> "none", notified |-> FALSE, address |-> "none", clean |-> FALSE]

\* The body of verify2FACode, as a caller awaits it.
verify2FACodeCall(code) ==
    /\ IF ~adminSession.exists
       THEN /\ authResult' = VerifyResult(FALSE, "No active admin session")
            /\ lastOp' = AuthOp("verify2FACode", "noSession", code)
            /\ UNCHANGED adminSession
       ELSE IF ~validate2FACode(EmailOf(adminSession.user), code)
       THEN /\ authResult' = VerifyResult(FALSE, "Invalid 2FA code")
            /\ lastOp' = AuthOp("verify2FACode", "invalid", code)
            /\ UNCHANGED adminSession
       ELSE /\ adminSession' = [adminSession EXCEPT !.is2FAVerified = TRUE]
            /\ authResult' = VerifyResult(TRUE, "")
            /\ lastOp' = AuthOp("verify2FACode", "verified", code)
    /\ UNCHANGED <<bystanderVars, authUser, loginAttempts, blockedIps>>

verify2FACode(code) ==
    /\ verify2FACodeCall(code)
    /\ UNCHANGED callerVars

\* The body of adminLogout, as a caller awaits it.
adminLogoutCall ==
    /\ adminSession' = NoSession
    /\ IF supabaseClient = "null"
       THEN /\ authResult' = [VerifyResult(FALSE, ClientMissingAuth) EXCEPT
                                 !.op = "adminLogout"]
            /\ lastOp' = AuthOp("adminLogout", "noClient", "")
            /\ UNCHANGED authUser
       ELSE /\ authUser' = signOut(authUser).authUser
            /\ authResult' = [VerifyResult(TRUE, "") EXCEPT !.op = "adminLogout"]
            /\ lastOp' = AuthOp("adminLogout", "loggedOut", "")
    /\ UNCHANGED <<bystanderVars, loginAttempts, blockedIps>>

adminLogout ==
    /\ adminLogoutCall
    /\ UNCHANGED callerVars

AuthTick == Advance(MaxAuthTicks, OneHour)

\* The gate under failing and succeeding attempts, as time passes.
GateCredentials ==
    {c \in CredentialInputs : c.email \in {"", "admin@x.io"} /\ c.password # ""}
    \cup {[email |-> "", password |-> ""]}

GateFaults == FaultInputs \ {{"adminQuery"}, {"clear"}, {"auth"}}

GateNext ==
    \/ \E c \in GateCredentials : \E ip \in ClientAddresses :
       \E l \in LookupInputs : \E f \in GateFaults : adminLogin(c, ip, l, f)
    \/ AuthTick

InitAuth ==
    /\ now = 0
    /\ lastOp = [op |-> "init", tab |-> 0, path |-> "init", arg |-> ""]
    /\ FormIdle
    /\ BackendInit
    /\ PageInit
    /\ supabaseClient \in {"null", "client"}

SpecGate == InitAuth /\ [][GateNext]_vars

\* The session under login, verification and logout.
SessionNext ==
    \/ \E c \in CredentialInputs : \E ip \in ClientAddresses :
       \E l \in LookupInputs : \E f \in FaultInputs : adminLogin(c, ip, l, f)
    \/ \E code \in CodeInputs : verify2FACode(code)
    \/ adminLogout

SpecSession == InitAuth /\ [][SessionNext]_vars

(***************************************************************************)
(* Properties of the session gate.                                         *)
(***************************************************************************)
\* The store holds an active admin_users row for the user.
HasActiveAdminRow(userId) ==
    \E row \in AdminUsers : row.user_id = userId /\ row.is_active

\* A step in which adminLogin got the auth provider's acceptance of the credentials.
AcceptedByAuth ==
    /\ lastOp'.op = "adminLogin"
    /\ authResult'.user # "none"

\* C4: when adminLogin is called with credentials the auth provider accepts
\* and the user has no active admin_users row, the provider's session is
\* signed out, the call fails with "Access denied: Admin privileges required",
\* and afterwards there is no admin session and isAdminLoggedIn() is false.
C4_NonAdminSignedOut ==
    [][ (AcceptedByAuth /\ ~HasActiveAdminRow(authResult'.user))
          => /\ authUser' = "none"
             /\ ~authResult'.ok
             /\ authResult'.message = "Access denied: Admin privileges required"
             /\ adminSession' = NoSession
             /\ ~(adminSession'.exists /\ adminSession'.is2FAVerified) ]_vars

\* A user without an admin row has been turned away after the provider accepted them.
C4_Witness ==
    /\ lastOp.op = "adminLogin"
    /\ authResult.user = "u-visitor"
    /\ authResult.contacted
    /\ authResult.message = "Access denied: Admin privileges required"
    /\ authUser = "none"
    /\ ~isAdminLoggedIn

\* C5: a successful adminLogin leaves a session whose verified flag is false,
\* so isAdminLoggedIn() is false; verify2FACode sets the flag exactly when a
\* session exists and the code is the configured one, and otherwise fails
\* with an error and leaves the session as it was; nothing else sets the flag.
C5_TwoFactorGate ==
    [][ /\ (lastOp'.op = "adminLogin" /\ authResult'.ok)
            => /\ adminSession'.exists
               /\ ~adminSession'.is2FAVerified
        /\ lastOp'.op = "verify2FACode"
            => IF adminSession.exists /\ lastOp'.arg = "123456"
               THEN /\ authResult'.ok
                    /\ adminSession' = [adminSession EXCEPT !.is2FAVerified = TRUE]
               ELSE /\ ~authResult'.ok
                    /\ authResult'.message # ""
                    /\ adminSession' = adminSession
        /\ (adminSession'.is2FAVerified /\ adminSession' # adminSession)
            => /\ lastOp'.op = "verify2FACode"
               /\ lastOp'.arg = "123456"
               /\ adminSession.exists ]_vars

\* The configured code has verified the session of a logged-in admin.
C5_Witness ==
    /\ lastOp.op = "verify2FACode"
    /\ lastOp.arg = "123456"
    /\ authResult.ok
    /\ authUser = "u-admin"
    /\ isAdminLoggedIn

\* The address's login_attempts rows of the last hour.
Tally(address) == Len(SelectSeq(loginAttempts[address], LAMBDA c : c >= now - OneHour))

\* What the claim says of an adminLogin step made from `address`.
GateHolds(address) ==
    \* a failed attempt is added to the address's tally, and to no other
    /\ lastOp'.path \in {"incomplete", "refused", "notAdmin"}
          => loginAttempts' = [loginAttempts EXCEPT ![address] = Append(@, now)]
    \* the tally has reached the ceiling: block, notify, reject before auth
    /\ (address \notin blockedIps /\ Tally(address) >= maxFailedAttempts)
          => /\ blockedIps' = blockedIps \cup {address}
             /\ authResult'.notified
             /\ ~authResult'.ok
             /\ ~authResult'.contacted
    \* the address is blocked: reject before auth
    /\ address \in blockedIps
          => /\ ~authResult'.ok
             /\ ~authResult'.contacted
    \* otherwise the attempt goes on to the credentials
    /\ (address \notin blockedIps /\ Tally(address) < maxFailedAttempts)
          => lastOp'.path \notin {"blocked", "tooMany"}

sessionTimeout == 2 * 60 * 60 * 1000

\* The period of the setInterval in setupAdminSessionMonitoring.
SessionCheckInterval == 5 * 60 * 1000

\* validateAdminSession: adminSession !== null
validateAdminSession(session) == session.exists

\* The page after initializeSupabase has run to its end.
Connected == [isConnected |-> TRUE, isInitialized |-> TRUE, lastError |-> "null",
              retryCount |-> 0]

\* The interval elapses and its callback runs: a session that
\* validateAdminSession finds invalid is logged out and the page reloaded.
sessionCheck ==
    /\ connectionState.isInitialized
    /\ now < MaxMonitorTicks * SessionCheckInterval
    /\ now' = now + SessionCheckInterval
    /\ IF ~adminSession.exists
       THEN /\ lastOp' = AuthOp("sessionCheck", "noSession", "")
            /\ UNCHANGED <<adminSession, authUser, supabaseClient, connectionState>>
       ELSE IF validateAdminSession(adminSession)
       THEN /\ lastOp' = AuthOp("sessionCheck", "valid", "")
            /\ UNCHANGED <<adminSession, authUser, supabaseClient, connectionState>>
       ELSE \* adminLogout, then window.location.reload()
            /\ adminSession' = NoSession
            /\ authUser' = signOut(authUser).authUser
            /\ supabaseClient' = "null"
            /\ connectionState' = NoConnection
            /\ lastOp' = AuthOp("sessionCheck", "expired", "")
    /\ UNCHANGED <<formVars, crudVars, loginAttempts, blockedIps, authResult,
                   retryTimer, initTrace, storedTheme, userPreference, adminLocal,
                   storageResult, dashVars, themeVars, debounceVars>>

AdminCredentials == [email |-> "admin@x.io", password |-> "pw-admin"]

\* An administrator's sessions, while the interval timer runs.
MonitorNext ==
    \/ \E ip \in ClientAddresses : adminLogin(AdminCredentials, ip, <<TRUE, TRUE, TRUE>>, {})
    \/ \E code \in {"123456", "654321"} : verify2FACode(code)
    \/ adminLogout
    \/ sessionCheck

InitMonitor ==
    /\ now = 0
    /\ lastOp = [op |-> "init", tab |-> 0, path |-> "init", arg |-> ""]
    /\ FormIdle
    /\ projects = <<>>
    /\ certificates = <<>>
    /\ crudResult = NoCrudResult
    /\ adminSession = NoSession
    /\ authUser = "none"
    /\ loginAttempts = [a \in AllAddresses |-> <<>>]
    /\ blockedIps = {}
    /\ authResult = NoAuthResult
    /\ supabaseClient = "client"
    /\ connectionState = Connected
    /\ retryTimer = NoTimer
    /\ initTrace = NoInitTrace
    /\ storedTheme = "null"
    /\ userPreference = "null"
    /\ adminLocal = NoAdminLocal
    /\ storageResult = NoStorageResult
    /\ DashInit
    /\ ThemeInit
    /\ DebounceInit

SpecMonitor == InitMonitor /\ [][MonitorNext]_vars

(***************************************************************************)
(* Properties of session monitoring.                                       *)
(***************************************************************************)
\* The session's age at the instant t.
SessionAge(t) == t - adminSession.createdAt

\* C11 as stated: when the interval fires on a session whose age exceeds
\* sessionTimeout, the callback logs the session out and reloads the page, so
\* that no session is alive more than one interval past its expiry.
C11_Original ==
    [][(lastOp'.op = "sessionCheck" /\ adminSession.exists
            /\ SessionAge(now') > sessionTimeout) =>
          (~adminSession'.exists /\ lastOp'.path = "expired")]_vars

(***************************************************************************)
(* Initialization of the backend client, and its retries.                  *)
(***************************************************************************)
\* SUPABASE_CONFIG.security.maxRetries
maxRetries == 3

\* The factor of the retry delay: setTimeout(..., 2000 * retryCount)
RetryDelay == 2000

\* How one run of initializeSupabase ends: the library does not load,
\* createSupabaseClient throws, or every step succeeds.
InitOutcomes == {"libraryFails", "clientFails", "ok"}

InitError(outcome) ==
    IF outcome = "libraryFails" THEN "Failed to load Supabase library"
    ELSE "Invalid Supabase URL format"

\* handleInitializationError retrying while retryCount <= maxRetries.
handleInitializationError_OneMore(cs, trace, t) ==
    IF cs.retryCount <= maxRetries
    THEN [connectionState |-> [cs EXCEPT !.retryCount = @ + 1],
          retryTimer |-> [armed |-> TRUE, due |-> t + RetryDelay * (cs.retryCount + 1)],
          initTrace |-> [trace EXCEPT
                            !.delays = Append(@, RetryDelay * (cs.retryCount + 1))],
          path |-> "retry"]
    ELSE [connectionState |-> cs,
          retryTimer |-> NoTimer,
          initTrace |-> [trace EXCEPT !.banners = @ + 1],
          path |-> "banner"]

\* handleInitializationError at time t: another run is scheduled, or
\* showDatabaseError appends the banner.
handleInitializationError(cs, trace, t) ==
    IF cs.retryCount < maxRetries
    THEN [connectionState |-> [cs EXCEPT !.retryCount = @ + 1],
          retryTimer |-> [armed |-> TRUE, due |-> t + RetryDelay * (cs.retryCount + 1)],
          initTrace |-> [trace EXCEPT
                            !.delays = Append(@, RetryDelay * (cs.retryCount + 1))],
          path |-> "retry"]
    ELSE [connectionState |-> cs,
          retryTimer |-> NoTimer,
          initTrace |-> [trace EXCEPT !.banners = @ + 1],
          path |-> "banner"]

\* One run of initializeSupabase.
initializeSupabase(outcome) ==
    LET started == [initTrace EXCEPT !.runs = @ + 1]
    IN
    /\ IF outcome = "ok"
       THEN /\ supabaseClient' = "client"
            /\ connectionState' = [connectionState EXCEPT !.isConnected = TRUE,
                                                           !.isInitialized = TRUE]
            /\ retryTimer' = NoTimer
            /\ initTrace' = started
            /\ lastOp' = AuthOp("initializeSupabase", "initialized", outcome)
       ELSE LET h == handleInitializationError(
                         [connectionState EXCEPT !.lastError = InitError(outcome)],
                         started, now)
            IN  /\ connectionState' = h.connectionState
                /\ retryTimer' = h.retryTimer
                /\ initTrace' = h.initTrace
                /\ lastOp' = AuthOp("initializeSupabase", h.path, outcome)
                /\ UNCHANGED supabaseClient
    /\ UNCHANGED <<now, formVars, crudVars, authVars, storedTheme, userPreference,
                   adminLocal, storageResult, dashVars, themeVars, debounceVars>>

\* document's DOMContentLoaded event.
DOMContentLoaded(outcome) ==
    /\ initTrace.runs = 0
    /\ initializeSupabase(outcome)

\* The timeout armed by handleInitializationError expires.
retryTimeout(outcome) ==
    /\ retryTimer.armed
    /\ now >= retryTimer.due
    /\ initializeSupabase(outcome)

\* Time passes, up to the instant at which an armed timeout expires.
InitTick ==
    /\ ~(retryTimer.armed /\ now >= retryTimer.due)
    /\ Advance(MaxInitTicks, RetryDelay)

InitNext ==
    \/ \E o \in InitOutcomes : DOMContentLoaded(o)
    \/ \E o \in InitOutcomes : retryTimeout(o)
    \/ InitTick

InitPage ==
    /\ now = 0
    /\ lastOp = [op |-> "init", tab |-> 0, path |-> "init", arg |-> ""]
    /\ FormIdle
    /\ BackendInit
    /\ PageInit
    /\ supabaseClient = "null"

SpecInit == InitPage /\ [][InitNext]_vars

(***************************************************************************)
(* Properties of initialization.                                           *)
(***************************************************************************)
\* The delay before the k-th retry is RetryDelay * k, so the delays increase.
DelaysIncrease ==
    /\ \A i \in DOMAIN initTrace.delays : initTrace.delays[i] = RetryDelay * i
    /\ \A i \in DOMAIN initTrace.delays : \A j \in DOMAIN initTrace.delays :
           i < j => initTrace.delays[i] < initTrace.delays[j]

\* The banner is up: every run has failed and nothing more is scheduled.
BannerIsFinal ==
    initTrace.banners = 1 =>
        /\ initTrace.runs = maxRetries + 1
        /\ Len(initTrace.delays) = maxRetries
        /\ ~retryTimer.armed
        /\ ~connectionState.isInitialized

\* C12: initializeSupabase runs at most 1 + maxRetries times, the k-th retry
\* is delayed by 2000 ms times k, and the run that fails after the last retry
\* shows the database-error banner, once, and schedules nothing further.
C12_BoundedRetries ==
    [][/\ initTrace'.runs <= maxRetries + 1
       /\ initTrace'.banners <= 1
       /\ DelaysIncrease'
       /\ BannerIsFinal'
       /\ (initTrace.runs = maxRetries /\ initTrace'.runs = maxRetries + 1
              /\ ~connectionState'.isInitialized) => initTrace'.banners = 1
       /\ initTrace.banners = 1 => initTrace' = initTrace]_vars

\* Every run has failed: the initial one and the three retries, after delays
\* of 2000, 4000 and 6000 ms; the banner is shown.
C12_Witness ==
    /\ initTrace = [runs |-> 4, delays |-> <<2000, 4000, 6000>>, banners |-> 1]
    /\ connectionState.retryCount = maxRetries
    /\ lastOp.path = "banner"
    /\ now >= 12000

(***************************************************************************)
(* Reads of the browser's local storage: the theme preference              *)
(* (theme-switcher.js), the submission history (main.js) and the           *)
(* failed-login bookkeeping (admin.js).                                    *)
(***************************************************************************)
\* Object.values(THEMES)
THEMES == {"light", "dark", "auto"}

\* ADMIN_CONFIG.security.maxLoginAttempts and .lockoutDuration
maxLoginAttempts == 3
lockoutDuration == 24 * 60 * 60 * 1000

\* loadUserPreference: the userPreference it leaves; a getItem that throws is
\* caught and leaves null.
loadUserPreference(stored, available, current) ==
    IF ~available THEN [threw |-> FALSE, userPreference |-> "null"]
    ELSE IF stored # "null" /\ stored \in THEMES
    THEN [threw |-> FALSE, userPreference |-> stored]
    ELSE [threw |-> FALSE, userPreference |-> current]

\* saveUserPreference: a setItem that throws is caught and changes nothing.
saveUserPreference(stored, available, current, preference) ==
    IF available THEN [stored |-> preference, userPreference |-> preference]
    ELSE [stored |-> stored, userPreference |-> current]

\* trackFailedLoginAttempt at time t: the getItem is not guarded, so a read
\* that throws ends the function.
trackFailedLoginAttempt(local, available, t) ==
    IF ~available
    THEN [threw |-> TRUE, attempts |-> 0, local |-> local, locked |-> FALSE]
    ELSE LET attempts == (IF local.attempts.exists THEN local.attempts.value ELSE 0) + 1
         IN  [threw |-> FALSE,
              attempts |-> attempts,
              local |-> [attempts |-> NumberKey(attempts),
                         lockoutEnd |-> IF attempts >= maxLoginAttempts
                                        THEN NumberKey(t + lockoutDuration)
                                        ELSE local.lockoutEnd],
              locked |-> attempts >= maxLoginAttempts]

StorageOp(op, path) == [op |-> op, tab |-> 0, path |-> path, arg |-> ""]

transitionDuration == 300

MatchMedia(matches) == IF matches THEN "dark" ELSE "light"

\* determineActiveTheme: the visitor's light or dark preference, else the
\* system's.
determineActiveTheme(preference, system) ==
    IF preference # "null" /\ preference # "auto" THEN preference ELSE system

\* The data-theme attribute applyTheme leaves on the document: "dark" for the
\* dark theme, removed (the light default) for every other value.
AttributeFor(theme) == IF theme = "dark" THEN "dark" ELSE "light"

\* applyTheme(theme, animate) at time t: an animated call during a transition
\* returns at once; otherwise the attribute is set and, when animated, the
\* transition flag is raised and a timeout of transitionDuration armed.
applyTheme(theme, animate, transitioning, attribute, timers, t) ==
    IF transitioning /\ animate
    THEN [isTransitioning |-> transitioning, documentTheme |-> attribute,
          transitionTimers |-> timers]
    ELSE [isTransitioning |-> transitioning \/ animate,
          documentTheme |-> AttributeFor(theme),
          transitionTimers |-> IF animate THEN timers \union {t + transitionDuration}
                               ELSE timers]

\* initializeThemeSystem on a freshly loaded page: the script's state starts
\* as declared (userPreference null, no transition), the system preference is
\* detected, the stored preference loaded and the theme applied unanimated.
initializeThemeSystem ==
    \E matches \in BOOLEAN :
        LET r == loadUserPreference(storedTheme, storageAvailable, "null")
            theme == determineActiveTheme(r.userPreference, MatchMedia(matches))
            a == applyTheme(theme, FALSE, FALSE, "light", {}, now)
        IN  /\ systemPreference' = MatchMedia(matches)
            /\ userPreference' = r.userPreference
            /\ currentTheme' = theme
            /\ isTransitioning' = a.isTransitioning
            /\ documentTheme' = a.documentTheme
            /\ transitionTimers' = a.transitionTimers
            /\ storageResult' = [op |-> "loadUserPreference", threw |-> r.threw,
                                 value |-> r.userPreference]
            /\ lastOp' = StorageOp("loadUserPreference", "returned")
            /\ UNCHANGED <<now, formVars, backendVars, connectionState, retryTimer,
                           initTrace, storedTheme, adminLocal, dashVars, debounceVars>>

\* setTheme(theme, savePreference): a value that names no theme is refused;
\* otherwise currentTheme is assigned, the preference saved when asked, and
\* the theme applied with animation.
setTheme(theme, savePreference) ==
    IF theme \notin THEMES
    THEN /\ lastOp' = StorageOp("setTheme", "invalid")
         /\ UNCHANGED <<now, formVars, backendVars, connectionState, retryTimer,
                        initTrace, storedTheme, userPreference, adminLocal,
                        storageResult, dashVars, themeVars, debounceVars>>
    ELSE LET r == IF savePreference
                  THEN saveUserPreference(storedTheme, storageAvailable,
                                          userPreference, theme)
                  ELSE [stored |-> storedTheme, userPreference |-> userPreference]
             a == applyTheme(theme, TRUE, isTransitioning, documentTheme,
                             transitionTimers, now)
         IN  /\ currentTheme' = theme
             /\ storedTheme' = r.stored
             /\ userPreference' = r.userPreference
             /\ isTransitioning' = a.isTransitioning
             /\ documentTheme' = a.documentTheme
             /\ transitionTimers' = a.transitionTimers
             /\ lastOp' = StorageOp("setTheme", "returned")
             /\ UNCHANGED <<now, formVars, backendVars, connectionState, retryTimer,
                            initTrace, adminLocal, storageResult, dashVars,
                            systemPreference, debounceVars>>

\* initializeRateLimiting on the contact page: the history is read, pruned
\* and saved.
initializeRateLimiting ==
    LET submissions == RecentOf(getSubmissionHistory(localStore, storageAvailable),
                                now - OneHour)
    IN  /\ localStore' = saveSubmissionHistory(localStore, storageAvailable, submissions)
        /\ storageResult' = [op |-> "getSubmissionHistory", threw |-> FALSE,
                             value |-> ToString(Len(submissions))]
        /\ lastOp' = StorageOp("getSubmissionHistory", "returned")
        /\ UNCHANGED <<now, openTabs, fields, formState, phase, pending, notices,
                       storageAvailable, emailjsLoaded, supabaseGlobal, mailCalls,
                       storeCalls, acceptedAt, backendVars, connectionState,
                       retryTimer, initTrace, storedTheme, userPreference, adminLocal,
                       dashVars, themeVars, debounceVars>>

\* handleLogin's catch clause on the admin page, after a failed login.
handleLoginFailure ==
    LET r == trackFailedLoginAttempt(adminLocal, storageAvailable, now)
    IN  /\ r.attempts < MaxFailedLogins
        /\ adminLocal' = r.local
        /\ storageResult' = [op |-> "trackFailedLoginAttempt", threw |-> r.threw,
                             value |-> ToString(r.attempts)]
        /\ lastOp' = StorageOp("trackFailedLoginAttempt",
                               IF r.threw THEN "thrown"
                               ELSE IF r.locked THEN "locked" ELSE "returned")
        /\ UNCHANGED <<now, formVars, backendVars, connectionState, retryTimer,
                       initTrace, storedTheme, userPreference, dashVars, themeVars,
                       debounceVars>>

StorageNext ==
    \/ initializeThemeSystem
    \/ \E theme \in THEMES : setTheme(theme, TRUE)
    \/ initializeRateLimiting
    \/ handleLoginFailure

\* The browser's storage works or throws; the theme key is absent or holds a
\* value that names no theme.
InitStorage ==
    /\ now = 0
    /\ lastOp = [op |-> "init", tab |-> 0, path |-> "init", arg |-> ""]
    /\ FormInit
    /\ emailjsLoaded = FALSE
    /\ supabaseGlobal = "api"
    /\ BackendInit
    /\ supabaseClient = "null"
    /\ connectionState = NoConnection
    /\ retryTimer = NoTimer
    /\ initTrace = NoInitTrace
    /\ storedTheme \in {"null", "sepia"}
    /\ userPreference = "null"
    /\ adminLocal = NoAdminLocal
    /\ storageResult = NoStorageResult
    /\ DashInit
    /\ ThemeInit
    /\ DebounceInit

SpecStorage == InitStorage /\ [][StorageNext]_vars

(***************************************************************************)
(* Properties of the local-storage reads.                                  *)
(***************************************************************************)
StorageReaders == {"loadUserPreference", "getSubmissionHistory", "trackFailedLoginAttempt"}

\* The default each reader falls back to: no preference, an empty history,
\* zero earlier attempts.
DefaultUsed ==
    CASE storageResult.op = "loadUserPreference" -> storageResult.value = "null"
      [] storageResult.op = "getSubmissionHistory" -> storageResult.value = "0"
      [] storageResult.op = "trackFailedLoginAttempt" -> storageResult.value = "1"
      [] OTHER -> TRUE

\* C13 as stated: with the local store unavailable, each of the three readers
\* completes with its default value and lets no exception out.
C13_Original ==
    [][(~storageAvailable /\ lastOp'.op \in StorageReaders) =>
          (~storageResult'.threw /\ DefaultUsed')]_vars

(***************************************************************************)
(* The contact form in one tab, under field values at and around the       *)
(* bounds of the validation rules and under messages the content check     *)
(* is written for.                                                         *)
(***************************************************************************)
\* The first n characters of text repeated over and over.
Cycle(text, n) == [i \in 1..n |-> text[((i - 1) % Len(text)) + 1]]

FormMin ==
    [ValidForm EXCEPT !.name = Cycle(NameAnn, NameMinLength),
                      !.subject = Cycle(SubjectOk, SubjectMinLength),
                      !.message = Cycle(MessageOk, MessageMinLength)]

FormMax ==
    [ValidForm EXCEPT !.name = Cycle(NameAnn, NameMaxLength),
                      !.subject = Cycle(SubjectOk, SubjectMaxLength),
                      !.message = Cycle(MessageOk, MessageMaxLength)]

FieldInputs ==
    { ValidForm, FormMin, FormMax, EmptyForm,
      [ValidForm EXCEPT !.name = Cycle(NameAnn, NameMinLength - 1)],
      [ValidForm EXCEPT !.name = Cycle(NameAnn, NameMaxLength + 1)],
      [ValidForm EXCEPT !.name = <<" ","J"," ">>],
      [ValidForm EXCEPT !.name = <<" "," ","A","n","n"," ","L","e","e"," ">>],
      [ValidForm EXCEPT !.name = <<"R","2","D","2">>],
      [ValidForm EXCEPT !.email = EmailBad],
      [ValidForm EXCEPT !.email = <<" ","a","n","n","@","m","a","i","l",".","o","r","g"," ">>],
      [ValidForm EXCEPT !.subject = Cycle(SubjectOk, SubjectMinLength - 1)],
      [ValidForm EXCEPT !.subject = Cycle(SubjectOk, SubjectMaxLength + 1)],
      [ValidForm EXCEPT !.message = Cycle(MessageOk, MessageMinLength - 1)],
      [ValidForm EXCEPT !.message = Cycle(MessageOk, MessageMaxLength + 1)],
      [ValidForm EXCEPT !.message = <<"H","e","l","l","o"," ","t","h","e"," "," "," ">>],
      [ValidForm EXCEPT !.website = <<"x">>],
      [ValidForm EXCEPT !.website = <<"x">>, !.name = NameJ] }

MsgCasino == <<"t","r","y"," ","t","h","e"," ","c","a","s","i","n","o"," ","t","o","d","a","y">>
MsgCasinoUpper == <<"T","r","y"," ","t","h","e"," ","C","A","S","I","N","O"," ","t","o","d","a","y">>
MsgWinners == <<"o","u","r"," ","w","i","n","n","e","r","s"," ","l","i","s","t">>
MsgClickHere == <<"p","l","e","a","s","e"," ","c","l","i","c","k"," ","h","e","r","e"," ","n","o","w">>
MsgUrlUpper == <<"s","e","e"," ","H","T","T","P","S",":","/","/","X",".","I","O">>
MsgBareScheme == <<"s","e","e"," ","h","t","t","p",":","/","/"," ","n","o","w">>
MsgRun10 == Rep("z", 10) \o <<" ","y","e","s">>
MsgRun11 == Rep("z", 11) \o <<" ","y","e","s">>
MsgRunMixed == Rep("Z", 5) \o Rep("z", 6) \o <<" ","y","e","s">>
MsgRunNewlines == <<"h","e","l","l","o">> \o Rep("\n", 11) \o <<"t","h","e","r","e">>

ContentMessages ==
    { MessageOk, MsgCasino, MsgCasinoUpper, MsgWinners, MsgClickHere, MessageUrl,
      MsgUrlUpper, MsgBareScheme, MsgRun10, MsgRun11, MsgRunMixed, MsgRunNewlines }

ContentInputs == {[ValidForm EXCEPT !.message = m] : m \in ContentMessages}

FieldsNext ==
    \/ \E f \in FieldInputs \cup ContentInputs : FillForm(1, f)
    \/ mailCalls < MaxFieldMails /\ handleFormSubmit(1)
    \/ \E r \in MailResponses : sendEmail(1, r)
    \/ \E r \in StoreResponses : storeMessage(1, r)

\* One tab; the mail library is loaded and the page has a store client.
InitFields ==
    /\ now = 0
    /\ lastOp = [op |-> "init", tab |-> 0, path |-> "init", arg |-> ""]
    /\ FormInit
    /\ emailjsLoaded = TRUE
    /\ supabaseGlobal = "client"
    /\ BackendInit
    /\ PageInit
    /\ supabaseClient = "null"

SpecFields == InitFields /\ [][FieldsNext]_vars

(***************************************************************************)
(* Properties of the contact form, continued.                              *)
(***************************************************************************)
\* The documented rules, on the values as they are sent.
WithinRules(d) ==
    /\ \A n \in FieldNames : Trim(d[n]) = d[n]
    /\ Len(d.name) >= NameMinLength
    /\ Len(d.name) <= NameMaxLength
    /\ EmailPattern(d.email)
    /\ Len(d.subject) >= SubjectMinLength
    /\ Len(d.subject) <= SubjectMaxLength
    /\ Len(d.message) >= MessageMinLength
    /\ Len(d.message) <= MessageMaxLength

\* C14: the form data of every emailjs.send call is trimmed and within the
\* rules (name 2-50 characters, email matching the pattern, subject 5-100,
\* message 10-1000), and a submit event whose trimmed values break a rule
\* issues no call.
C14_OnlyValidFieldsSent ==
    [][\A t \in AllTabs :
          /\ (mailCalls' = mailCalls + 1 /\ lastOp'.tab = t) =>
                 WithinRules(pending'[t])
          /\ (SubmitStep(t) /\ ~WithinRules(collectFormData(fields[t]))) =>
                 (mailCalls' = mailCalls /\ phase'[t] = "idle")]_vars

\* A submission whose fields are at their upper bounds (50, 100 and 1000
\* characters) is on its way to the mail service.
C14_Witness ==
    /\ lastOp = [op |-> "submit", tab |-> 1, path |-> "sending", arg |-> ""]
    /\ pending[1] = collectFormData(FormMax)
    /\ Len(pending[1].name) = NameMaxLength
    /\ Len(pending[1].message) = MessageMaxLength

(***************************************************************************)
(* Two tabs showing the contact form: each page has its own formState,     *)
(* and both share localStorage.                                            *)
(***************************************************************************)
TabInputs == {ValidForm, [ValidForm EXCEPT !.name = NameJ]}

TabMailResponses ==
    {r \in MailResponses : r.settled = "rejected" \/ r.status = 200}

TabsNext ==
    \/ \E t \in openTabs : \E f \in TabInputs : FillForm(t, f)
    \/ \E t \in openTabs : handleFormSubmit(t)
    \/ \E t \in openTabs : \E r \in TabMailResponses : sendEmail(t, r)
    \/ \E t \in openTabs : \E r \in {"ok", "error"} : storeMessage(t, r)

InitTabs ==
    /\ now = 0
    /\ lastOp = [op |-> "init", tab |-> 0, path |-> "init", arg |-> ""]
    /\ openTabs = AllTabs
    /\ fields = [t \in AllTabs |-> EmptyForm]
    /\ formState = [t \in AllTabs |-> [isSubmitting |-> FALSE, validationErrors |-> <<>>]]
    /\ phase = [t \in AllTabs |-> "idle"]
    /\ pending = [t \in AllTabs |-> Null]
    /\ notices = [t \in AllTabs |-> <<>>]
    /\ storageAvailable = TRUE
    /\ localStore = saveSubmissionHistory(NoItem, storageAvailable, <<>>)
    /\ emailjsLoaded = TRUE
    /\ supabaseGlobal = "client"
    /\ mailCalls = 0
    /\ storeCalls = 0
    /\ acceptedAt = <<>>
    /\ BackendInit
    /\ PageInit
    /\ supabaseClient = "null"

SpecTabs == InitTabs /\ [][TabsNext]_vars

(***************************************************************************)
(* Properties of the form's submitting flag and of concurrent tabs.        *)
(***************************************************************************)
\* Tab t has an emailjs.send call or a contact_messages insert outstanding.
InFlight(t) == phase[t] \in {"sending", "storing"}

\* C15: while a submission is in flight in a page, a further submit event in
\* that page changes nothing (no validation, no access to the history, no
\* mail or store call), so that a page never has two mail calls outstanding;
\* and isSubmitting is false again once the submission settles, whether it
\* was accepted or failed.
C15_SubmittingFlag ==
    [][\A t \in AllTabs :
          /\ (lastOp'.op = "submit" /\ lastOp'.tab = t /\ formState[t].isSubmitting) =>
                 /\ lastOp'.path = "busy"
                 /\ UNCHANGED <<fields, formState, phase, pending, notices, localStore,
                                mailCalls, storeCalls, acceptedAt>>
          /\ (mailCalls' = mailCalls + 1 /\ lastOp'.tab = t) =>
                 (~InFlight(t) /\ ~formState[t].isSubmitting)
          /\ formState'[t].isSubmitting <=> InFlight(t)'
          /\ (InFlight(t) /\ ~InFlight(t)') =>
                 (~formState'[t].isSubmitting /\ lastOp'.path \in {"accepted", "failed"})]_vars

\* A submit event arrived in a tab whose mail call is still outstanding.
C15_Witness ==
    \E t \in openTabs :
        /\ lastOp = [op |-> "submit", tab |-> t, path |-> "busy", arg |-> ""]
        /\ phase[t] = "sending"
        /\ formState[t].isSubmitting

\* C16: checkRateLimit only counts what recordSubmission has already written:
\* a submission that passes it adds nothing to the shared history while its
\* mail call is outstanding, and recordSubmission appends without counting
\* again; so two tabs can both pass the check on a history one short of the
\* ceiling, and more than maxSubmissionsPerHour submissions are accepted within
\* the hour.
C16_CheckThenAct ==
    [][\A t \in AllTabs :
          /\ (SubmitStep(t) /\ lastOp'.path = "sending") =>
                 /\ Len(RecentOf(getSubmissionHistory(localStore, storageAvailable),
                                 now - OneHour)) < maxSubmissionsPerHour
                 /\ NoTimestampRecorded
          /\ (lastOp'.tab = t /\ lastOp'.path = "accepted") =>
                 /\ acceptedAt' = Append(acceptedAt, now)
                 /\ localStore'.value = Append(localStore.value, now)]_vars

\* Both tabs passed the check before either recorded: a sixth submission has
\* been accepted within the hour, and the shared history holds six timestamps.
C16_Witness ==
    /\ openTabs = {1, 2}
    /\ RecentAccepted > maxSubmissionsPerHour
    /\ Len(RecentOf(localStore.value, now - OneHour)) > maxSubmissionsPerHour
    /\ mailCalls = RecentAccepted
    /\ lastOp.path = "accepted"

(***************************************************************************)
(* Properties of the order of the form's checks.                           *)
(***************************************************************************)
TooManyNotice == ErrorNotice("Too many submissions. Please wait before trying again.")
ProhibitedNotice == ErrorNotice("Message contains prohibited content.")
CorrectNotice == ErrorNotice("Please correct the errors above")

\* The rate limit turns a submission away at this instant.
RateLimited == ~checkRateLimit(localStore, storageAvailable, now).ok

\* The validation-error state of tab t is what validating every field of the
\* submitted values gives.
FieldsValidated(t) ==
    \A n \in FieldNames :
        IF validateField(n, fields[t][n]).isValid
        THEN n \notin DOMAIN formState'[t].validationErrors
        ELSE /\ n \in DOMAIN formState'[t].validationErrors
             /\ formState'[t].validationErrors[n] = validateField(n, fields[t][n]).errorMessage

\* The step leaves the validation-error state of tab t as it was.
ErrorsUntouched(t) == formState'[t].validationErrors = formState[t].validationErrors

\* C17 as stated: the checks run in the order honeypot, rate limit, content,
\* field validation, and the first failure ends processing: a honeypot
\* rejection touches neither the history nor the validation-error state, and
\* a rate-limited submission is rejected before the content check and the
\* field validation run.
C17_Original ==
    [][\A t \in AllTabs :
          /\ (SubmitStep(t) /\ fields[t].website # <<>>) =>
                 /\ lastOp'.path = "rejected"
                 /\ localStore' = localStore
                 /\ ErrorsUntouched(t)
          /\ (SubmitStep(t) /\ fields[t].website = <<>> /\ RateLimited) =>
                 /\ lastOp'.path = "rejected"
                 /\ ProhibitedNotice \notin {notices'[t][i] : i \in DOMAIN notices'[t]}
                 /\ ErrorsUntouched(t)]_vars

\* C17 as amended: validateForm first validates every field, recording the
\* errors, and then applies honeypot, rate limit and content check in that
\* order, the first failing one ending the security checks: a honeypot
\* rejection neither reads nor writes the history, a rate-limited submission
\* is rejected before the content check runs, and in both cases the
\* validation-error state is that of the submitted values.
C17_FieldsThenSecurityChecks ==
    [][\A t \in AllTabs :
          /\ SubmitStep(t) => FieldsValidated(t)
          /\ (SubmitStep(t) /\ fields[t].website # <<>>) =>
                 /\ lastOp'.path = "rejected"
                 /\ localStore' = localStore
                 /\ notices'[t] = <<CorrectNotice>>
          /\ (SubmitStep(t) /\ fields[t].website = <<>> /\ RateLimited) =>
                 /\ lastOp'.path = "rejected"
                 /\ notices'[t] = <<TooManyNotice, CorrectNotice>>
          /\ (SubmitStep(t) /\ fields[t].website = <<>> /\ ~RateLimited
                 /\ ~checkMessageContent(fields[t].message)) =>
                 /\ lastOp'.path = "rejected"
                 /\ notices'[t] = <<ProhibitedNotice, CorrectNotice>>]_vars

\* A submission with a filled honeypot and invalid name and email has been
\* rejected, and the field errors are recorded.
C17_Witness ==
    \E t \in openTabs :
        /\ lastOp = [op |-> "submit", tab |-> t, path |-> "rejected", arg |-> ""]
        /\ fields[t].website # <<>>
        /\ DOMAIN formState[t].validationErrors = {"name", "email"}
        /\ notices[t] = <<CorrectNotice>>

(***************************************************************************)
(* Properties of what the rate limit counts.                               *)
(***************************************************************************)
\* The history as the page reads it, before and after the step.
HistoryBefore == getSubmissionHistory(localStore, storageAvailable)
HistoryAfter == getSubmissionHistory(localStore', storageAvailable')

\* Tab t's submission gets past the honeypot and the rate limit in this step.
PassesRateLimit(t) ==
    /\ SubmitStep(t)
    /\ fields[t].website = <<>>
    /\ ~RateLimited

\* C18 as stated: a submission that passes the rate-limit check has the
\* current time appended to the persisted history by that check, whatever
\* happens to it afterwards.
C18_Original ==
    [][\A t \in AllTabs :
          PassesRateLimit(t) =>
              HistoryAfter = Append(RecentOf(HistoryBefore, now - OneHour), now)]_vars

\* C18 as amended: the check writes back the history pruned of entries older
\* than an hour and appends nothing; the time is appended by recordSubmission
\* once the mail send has succeeded, so a submission that is rejected by the
\* content check or the field validation, or whose mail send fails, does not
\* count against the ceiling.
C18_OnlyAcceptedCounted ==
    [][\A t \in AllTabs :
          /\ PassesRateLimit(t) =>
                 HistoryAfter = RecentOf(HistoryBefore, now - OneHour)
          /\ (lastOp'.tab = t /\ lastOp'.path \in {"rejected", "failed", "mailUnavailable"}) =>
                 NoTimestampRecorded
          /\ (lastOp'.tab = t /\ lastOp'.path = "accepted") =>
                 /\ lastOp'.op \in {"mailSettled", "storeSettled"}
                 /\ storageAvailable => HistoryAfter = Append(HistoryBefore, now)]_vars

\* A submission got past the rate limit, was rejected by the content check,
\* and the persisted history is still empty.
C18_Witness ==
    \E t \in openTabs :
        /\ lastOp = [op |-> "submit", tab |-> t, path |-> "rejected", arg |-> ""]
        /\ fields[t] = [ValidForm EXCEPT !.message = MessageUrl]
        /\ notices[t] = <<ProhibitedNotice, CorrectNotice>>
        /\ storageAvailable
        /\ localStore = Item(<<>>)

(***************************************************************************)
(* Properties of the rows the CRUD mediator sends.                         *)
(***************************************************************************)
\* The length rules, on a row as it is sent to the store.
SentWithinRules(row) ==
    /\ Len(row.name) >= ProjectNameMin
    /\ Len(row.name) <= ProjectNameMax
    /\ Len(row.description) >= ProjectDescriptionMin
    /\ Len(row.description) <= ProjectDescriptionMax

\* C19 as stated: every row createProject or updateProject sends to the store
\* has a sanitized name of 3-100 characters and a sanitized description of
\* 10-500 characters.
C19_Original ==
    [][(lastOp'.op \in {"createProject", "updateProject"} /\ crudResult'.calls = 1) =>
          SentWithinRules(ProjectPayload(crudResult'.data))]_vars

(***************************************************************************)
(* Properties of the content check.                                        *)
(***************************************************************************)
\* The text holds a denylisted keyword, anywhere.
ContainsKeyword(s) ==
    \E k \in SpamKeywords : \E i \in DOMAIN s : HasSubAt(s, k, i)

\* The text holds a denylisted keyword as a whole word.
ContainsKeywordAsWord(s) ==
    \E k \in SpamKeywords : \E i \in DOMAIN s :
        /\ HasSubAt(s, k, i)
        /\ (i = 1 \/ s[i - 1] \notin WordChar)
        /\ (i + Len(k) - 1 = Len(s) \/ s[i + Len(k)] \notin WordChar)

\* The text holds "http://" or "https://" followed by a character that is
\* not whitespace.
ContainsHttpUrl(s) ==
    \E scheme \in {<<"h","t","t","p",":","/","/">>, <<"h","t","t","p","s",":","/","/">>} : \E i \in DOMAIN s :
        /\ HasSubAt(s, scheme, i)
        /\ i + Len(scheme) <= Len(s)
        /\ s[i + Len(scheme)] \notin Whitespace

\* The text holds n identical consecutive characters outside the set skip.
HasRun(s, n, skip) ==
    \E i \in DOMAIN s :
        /\ i + n - 1 <= Len(s)
        /\ s[i] \notin skip
        /\ \A j \in i..(i + n - 1) : s[j] = s[i]

ProhibitedAsStated(message) ==
    LET s == ToLowerCase(message)
    IN  ContainsKeyword(s) \/ ContainsHttpUrl(s) \/ HasRun(s, 10, {})

ProhibitedAsCoded(message) ==
    LET s == ToLowerCase(message)
    IN  ContainsKeywordAsWord(s) \/ ContainsHttpUrl(s) \/ HasRun(s, 11, LineTerminator)

\* What a submit event does with a message the content check is to reject,
\* and with one it is to pass.
ContentDecides(t, prohibited) ==
    /\ prohibited <=> ~checkMessageContent(fields[t].message)
    /\ prohibited => (lastOp'.path = "rejected" /\ mailCalls' = mailCalls
                         /\ phase'[t] = "idle")
    /\ (fields[t].website = <<>> /\ ~RateLimited) =>
           (prohibited <=> ProhibitedNotice \in {notices'[t][i] : i \in DOMAIN notices'[t]})

\* C20 as stated: a message is rejected by the content check, and not sent,
\* whenever it contains, case-insensitively, a denylisted keyword, an http or
\* https URL, or a run of 10 or more identical characters; any other message
\* passes the content check.
C20_Original ==
    [][\A t \in AllTabs :
          SubmitStep(t) => ContentDecides(t, ProhibitedAsStated(fields[t].message))]_vars

\* C20 as amended: the same for a message that, lower-cased, contains a
\* denylisted keyword as a whole word, "http://" or "https://" followed by a
\* character that is not whitespace, or a run of 11 or more identical
\* characters other than line breaks.
C20_ContentCheck ==
    [][\A t \in AllTabs :
          SubmitStep(t) => ContentDecides(t, ProhibitedAsCoded(fields[t].message))]_vars

\* A message with a keyword in capitals has been rejected by the content check.
C20_Witness ==
    /\ lastOp = [op |-> "submit", tab |-> 1, path |-> "rejected", arg |-> ""]
    /\ fields[1] = [ValidForm EXCEPT !.message = MsgCasinoUpper]
    /\ notices[1] = <<ProhibitedNotice, CorrectNotice>>
    /\ formState[1].validationErrors = <<>>

(***************************************************************************)
(* The admin dashboard (admin.js): its view of the session, its data and   *)
(* its interval timers.  The dashboard reaches the backend module through  *)
(* window.supabase, with optional calls: window.supabase?.name?.(...).     *)
(***************************************************************************)
autoRefreshInterval == 30000
sessionCheckInterval == 5 * 60 * 1000
autoLogoutTime == 2 * 60 * 60 * 1000
InactivityCheckPeriod == 60000

MaxIntervals == 2
MaxDashFailures == 1
MaxCertHalfMinutes == 2
MaxDashMinutes == 1
MaxWatchMinutes == 6
MaxIdleMinutes == 1

\* window.supabase = { ... }: the names the backend module exposes.
PublicApi ==
    {"getProjects", "createProject", "updateProject", "deleteProject",
     "getCertificates", "createCertificate", "saveContactMessage",
     "adminLogin", "verify2FACode", "adminLogout",
     "getConnectionState", "isAdminLoggedIn", "config"}

\* window.supabase?.name?.(...): the function is called if it is exposed, and
\* the expression is undefined if it is not.
OptionalCall(name, returned) == IF name \in PublicApi THEN returned ELSE "undefined"

Truthy(value) == value \notin {"undefined", "null", "false"}

\* setInterval at one call site, at time t: one more interval is alive.
setInterval(intervals, t, period) ==
    [active |-> intervals.active \cup {[id |-> intervals.made + 1, due |-> t + period]},
     handle |-> intervals.made + 1,
     made |-> intervals.made + 1]

clearInterval(intervals, id) ==
    [intervals EXCEPT !.active = {x \in @ : x.id # id}]

\* An interval's callback has run: its next firing is one period later.
Refired(intervals, timer, period) ==
    [intervals EXCEPT !.active = (@ \ {timer}) \cup {[timer EXCEPT !.due = @ + period]}]

\* The ids of a table's active rows, newest first.
RECURSIVE ActiveDescending(_, _)
ActiveDescending(table, n) ==
    IF n = 0 THEN <<>>
    ELSE (IF table[n].is_active THEN <<n>> ELSE <<>>) \o ActiveDescending(table, n - 1)

\* getCertificates: the active rows, or [] when the query fails or throws.
getCertificates(response) ==
    IF supabaseClient = "null" \/ response = "error" THEN <<>>
    ELSE ActiveDescending(certificates, Len(certificates))

loadCertificates(response) ==
    IF Truthy(OptionalCall("getCertificates", "array")) THEN getCertificates(response)
    ELSE <<>>

DashResult(op, toast, called, id) == [op |-> op, toast |-> toast, called |-> called, id |-> id]

\* handleSuccessfulAuth(authResult): what it makes of adminState and of the
\* session-monitoring intervals.
handleSuccessfulAuth(user, response) ==
    [adminState |-> [isAuthenticated |-> TRUE,
                     currentUser |-> IF user = "undefined" THEN "admin@example.com"
                                     ELSE user,
                     certificates |-> loadCertificates(response),
                     activeModals |-> adminState.activeModals \ {"login-modal", "twofa-modal"}],
     sessionMonitors |-> setInterval(sessionMonitors, now, sessionCheckInterval),
     toast |-> "Welcome Back"]

\* A handler that calls nothing of the backend module.
BackendIdle == UNCHANGED <<bystanderVars, authVars, lastOp>>

showModal(state, modalId) == [state EXCEPT !.activeModals = @ \cup {modalId}]

hideModal(state, modalId) == [state EXCEPT !.activeModals = @ \ {modalId}]

\* handleLogout: adminLogout is awaited; its success clears the dashboard's
\* session and shows the login modal, its failure is caught and reported.
handleLogout(caller) ==
    /\ adminLogoutCall
    /\ adminState' = IF authResult'.ok
                     THEN showModal([adminState EXCEPT !.isAuthenticated = FALSE,
                                                       !.currentUser = "null"],
                                    "login-modal")
                     ELSE adminState
    /\ dashResult' = DashResult(caller,
                                IF authResult'.ok THEN "Logged Out" ELSE "Logout Error",
                                "handleLogout", 0)

Initialised == autoRefresh.made > 0

\* DOMContentLoaded on the admin page.
initializeAdminPanel ==
    /\ ~Initialised
    /\ LET loggedIn == Truthy(OptionalCall("isAdminLoggedIn",
                                           IF isAdminLoggedIn THEN "true" ELSE "false"))
           auth == handleSuccessfulAuth("undefined", "ok")
       IN  /\ adminState' = IF loggedIn THEN auth.adminState
                             ELSE showModal(adminState, "login-modal")
           /\ sessionMonitors' = IF loggedIn THEN auth.sessionMonitors ELSE sessionMonitors
           /\ dashResult' = DashResult("initializeAdminPanel",
                                       IF loggedIn THEN auth.toast ELSE "none",
                                       "isAdminLoggedIn", 0)
    /\ lastActivity' = now
    /\ inactivityTimer' = [armed |-> TRUE, due |-> now + InactivityCheckPeriod]
    /\ autoRefresh' = setInterval(autoRefresh, now, autoRefreshInterval)
    /\ BackendIdle
    /\ UNCHANGED <<documentHidden, adminLocal, storageResult>>

\* The login form is submitted (a click or a keypress on the page).
handleLogin(credentials, ip, faults) ==
    /\ Initialised
    /\ "login-modal" \in adminState.activeModals
    /\ adminLoginCall(credentials, ip, <<TRUE, TRUE, TRUE>>, faults)
    /\ lastActivity' = now
    /\ IF authResult'.ok
       THEN /\ IF require2FA
               THEN /\ adminState' = showModal(hideModal(adminState, "login-modal"),
                                                "twofa-modal")
                    /\ dashResult' = DashResult("handleLogin", "2FA Required",
                                                "adminLogin", 0)
                    /\ UNCHANGED sessionMonitors
               ELSE LET auth == handleSuccessfulAuth(authResult'.user, "ok")
                    IN  /\ adminState' = auth.adminState
                        /\ sessionMonitors' = auth.sessionMonitors
                        /\ dashResult' = DashResult("handleLogin", auth.toast,
                                                    "adminLogin", 0)
            /\ UNCHANGED <<adminLocal, storageResult>>
       ELSE LET r == trackFailedLoginAttempt(adminLocal, storageAvailable, now)
            IN  /\ r.attempts <= MaxDashFailures
                /\ adminLocal' = r.local
                /\ storageResult' = [op |-> "trackFailedLoginAttempt", threw |-> r.threw,
                                     value |-> ToString(r.attempts)]
                /\ dashResult' = DashResult("handleLogin", "Login Failed", "adminLogin", 0)
                /\ UNCHANGED <<adminState, sessionMonitors>>
    /\ UNCHANGED <<autoRefresh, documentHidden, inactivityTimer>>

\* The 2FA form is submitted.
handle2FAVerification(code) ==
    /\ Initialised
    /\ "twofa-modal" \in adminState.activeModals
    /\ lastActivity' = now
    /\ IF Len(code) # 6
       THEN /\ dashResult' = DashResult("handle2FAVerification", "Invalid Code", "none", 0)
            /\ BackendIdle
            /\ UNCHANGED <<adminState, sessionMonitors>>
       ELSE /\ verify2FACodeCall(code)
            /\ IF authResult'.ok
               THEN LET auth == handleSuccessfulAuth("undefined", "ok")
                    IN  /\ adminState' = auth.adminState
                        /\ sessionMonitors' = auth.sessionMonitors
                        /\ sessionMonitors'.made <= MaxIntervals
                        /\ dashResult' = DashResult("handle2FAVerification", auth.toast,
                                                    "verify2FACode", 0)
               ELSE /\ dashResult' = DashResult("handle2FAVerification",
                                                "Verification Failed", "verify2FACode", 0)
                    /\ UNCHANGED <<adminState, sessionMonitors>>
    /\ UNCHANGED <<autoRefresh, documentHidden, inactivityTimer, adminLocal, storageResult>>

\* The logout button of the admin app is clicked.
logoutClick ==
    /\ Initialised
    /\ adminState.isAuthenticated
    /\ handleLogout("logoutClick")
    /\ lastActivity' = now
    /\ UNCHANGED <<sessionMonitors, autoRefresh, documentHidden, inactivityTimer,
                   adminLocal, storageResult>>

\* window.deleteCertificate(certId), from the Delete button of a rendered
\* certificate.  The backend module defines and exposes no deleteCertificate.
deleteCertificate(certId, confirmed) ==
    /\ Initialised
    /\ adminState.isAuthenticated
    /\ \E k \in DOMAIN adminState.certificates : adminState.certificates[k] = certId
    /\ lastActivity' = now
    /\ IF ~confirmed
       THEN /\ dashResult' = DashResult("deleteCertificate", "none", "none", certId)
            /\ UNCHANGED adminState
       ELSE /\ adminState' = [adminState EXCEPT
                                 !.certificates = SelectSeq(@, LAMBDA c : c # certId)]
            /\ dashResult' = DashResult("deleteCertificate",
                                        "Certificate deleted successfully",
                                        OptionalCall("deleteCertificate", "deleteCertificate"),
                                        certId)
    /\ BackendIdle
    /\ UNCHANGED <<sessionMonitors, autoRefresh, documentHidden, inactivityTimer,
                   adminLocal, storageResult>>

\* setupSecurityMonitoring's interval: every minute, an authenticated admin
\* inactive for longer than autoLogoutTime is logged out.
\* The inactivity check logging out after any idle time at all.
inactivityCheck_AnyIdle ==
    /\ inactivityTimer.armed
    /\ inactivityTimer.due <= now
    /\ inactivityTimer' = [inactivityTimer EXCEPT !.due = @ + InactivityCheckPeriod]
    /\ IF now - lastActivity > 0 /\ adminState.isAuthenticated
       THEN handleLogout("inactivityCheck")
       ELSE /\ dashResult' = DashResult("inactivityCheck", "none", "none", 0)
            /\ BackendIdle
            /\ UNCHANGED adminState
    /\ UNCHANGED <<sessionMonitors, autoRefresh, documentHidden, lastActivity,
                   adminLocal, storageResult>>

inactivityCheck ==
    /\ inactivityTimer.armed
    /\ inactivityTimer.due <= now
    /\ inactivityTimer' = [inactivityTimer EXCEPT !.due = @ + InactivityCheckPeriod]
    /\ IF now - lastActivity > autoLogoutTime /\ adminState.isAuthenticated
       THEN handleLogout("inactivityCheck")
       ELSE /\ dashResult' = DashResult("inactivityCheck", "none", "none", 0)
            /\ BackendIdle
            /\ UNCHANGED adminState
    /\ UNCHANGED <<sessionMonitors, autoRefresh, documentHidden, lastActivity,
                   adminLocal, storageResult>>

\* One of startSessionMonitoring's intervals fires.
sessionMonitorFires(timer) ==
    /\ timer \in sessionMonitors.active
    /\ timer.due <= now
    /\ sessionMonitors' = Refired(sessionMonitors, timer, sessionCheckInterval)
    /\ LET isValid == OptionalCall("validateSession",
                                   IF validateAdminSession(adminSession) THEN "true"
                                   ELSE "false")
       IN IF adminState.isAuthenticated /\ ~Truthy(isValid)
          THEN handleLogout("startSessionMonitoring")
          ELSE /\ dashResult' = DashResult("startSessionMonitoring", "none", "none", 0)
               /\ BackendIdle
               /\ UNCHANGED adminState
    /\ UNCHANGED <<autoRefresh, documentHidden, lastActivity, inactivityTimer,
                   adminLocal, storageResult>>

\* One of setupAutoRefresh's intervals fires: loadDashboardData.
autoRefreshFires(timer, response) ==
    /\ timer \in autoRefresh.active
    /\ timer.due <= now
    /\ autoRefresh' = Refired(autoRefresh, timer, autoRefreshInterval)
    /\ IF adminState.isAuthenticated
       THEN /\ adminState' = [adminState EXCEPT !.certificates = loadCertificates(response)]
            /\ dashResult' = DashResult("setupAutoRefresh", "none", "getCertificates", 0)
       ELSE /\ dashResult' = DashResult("setupAutoRefresh", "none", "none", 0)
            /\ UNCHANGED adminState
    /\ BackendIdle
    /\ UNCHANGED <<sessionMonitors, documentHidden, lastActivity, inactivityTimer,
                   adminLocal, storageResult>>

\* The tab is hidden or shown.
handleVisibilityChange ==
    /\ Initialised
    /\ documentHidden' = ~documentHidden
    /\ autoRefresh' = IF documentHidden' /\ adminState.isAuthenticated
                      THEN clearInterval(autoRefresh, autoRefresh.handle)
                      ELSE IF ~documentHidden' /\ adminState.isAuthenticated
                      THEN setInterval(autoRefresh, now, autoRefreshInterval)
                      ELSE autoRefresh
    /\ autoRefresh'.made <= MaxIntervals
    /\ dashResult' = DashResult("handleVisibilityChange", "none", "none", 0)
    /\ BackendIdle
    /\ UNCHANGED <<adminState, sessionMonitors, lastActivity, inactivityTimer,
                   adminLocal, storageResult>>

\* A click, keypress, mousemove or scroll on the page.
userActivity ==
    /\ Initialised
    /\ lastActivity # now
    /\ lastActivity' = now
    /\ dashResult' = DashResult("activity", "none", "none", 0)
    /\ BackendIdle
    /\ UNCHANGED <<adminState, sessionMonitors, autoRefresh, documentHidden,
                   inactivityTimer, adminLocal, storageResult>>

\* The auth provider reports that its session has ended (signed out in
\* another tab, refresh token revoked or expired).
onAuthStateChange(event) ==
    /\ connectionState.isInitialized
    /\ authUser # "none"
    /\ IF event = "SIGNED_OUT"
       THEN /\ adminSession' = NoSession
            /\ authUser' = "none"
       ELSE UNCHANGED <<adminSession, authUser>>
    /\ lastOp' = AuthOp("onAuthStateChange", event, "")
    /\ UNCHANGED <<bystanderVars, callerVars, loginAttempts, blockedIps, authResult>>

\* The times at which the dashboard's intervals fire next.
DashDue ==
    {x.due : x \in sessionMonitors.active} \cup {x.due : x \in autoRefresh.active}
    \cup (IF inactivityTimer.armed THEN {inactivityTimer.due} ELSE {})

\* Time passes until the next interval is due.
DashTick(horizon) ==
    /\ DashDue # {}
    /\ \A d \in DashDue : d > now
    /\ now' = CHOOSE d \in DashDue : \A other \in DashDue : d <= other
    /\ now' <= horizon
    /\ UNCHANGED <<formVars, backendVars, pageVars, lastOp>>

Postponed(intervals, by) ==
    [intervals EXCEPT !.active = {[x EXCEPT !.due = @ + by] : x \in @}]

\* The machine sleeps: Date.now() moves on while the page's timers stand still.
Suspend(horizon) ==
    /\ Initialised
    /\ now + autoLogoutTime <= horizon
    /\ now' = now + autoLogoutTime
    /\ sessionMonitors' = Postponed(sessionMonitors, autoLogoutTime)
    /\ autoRefresh' = Postponed(autoRefresh, autoLogoutTime)
    /\ inactivityTimer' = [inactivityTimer EXCEPT !.due = @ + autoLogoutTime]
    /\ dashResult' = DashResult("suspend", "none", "none", 0)
    /\ UNCHANGED <<formVars, backendVars, lastOp, connectionState, retryTimer, initTrace,
                   storedTheme, userPreference, adminLocal, storageResult, adminState,
                   documentHidden, lastActivity, themeVars, debounceVars>>

DashCredentials == {AdminCredentials, [AdminCredentials EXCEPT !.password = "guess"]}

\* The admin page with the backend module initialized, before its own
\* DOMContentLoaded handler has run.
InitDash == InitMonitor

\* The dashboard's certificates: created, listed, deleted, reloaded.
CertsNext ==
    \/ initializeAdminPanel
    \/ \E ip \in ClientAddresses : handleLogin(AdminCredentials, ip, {})
    \/ \E code \in CodeInputs : handle2FAVerification(code)
    \/ \E id \in 1..MaxRows : \E confirmed \in BOOLEAN : deleteCertificate(id, confirmed)
    \/ \E timer \in autoRefresh.active : \E r \in CrudResponses : autoRefreshFires(timer, r)
    \/ inactivityCheck
    \/ createCertificate(CertificateOk, "ok")
    \/ DashTick(MaxCertHalfMinutes * autoRefreshInterval)

SpecCerts == InitDash /\ [][CertsNext]_vars

\* The dashboard's session and its timers during the first minutes of a
\* visit: logins, logouts, tab switches, and the auth provider's events.
DashNext ==
    \/ initializeAdminPanel
    \/ \E c \in DashCredentials : \E ip \in ClientAddresses : handleLogin(c, ip, {})
    \/ \E code \in CodeInputs : handle2FAVerification(code)
    \/ logoutClick
    \/ inactivityCheck
    \/ \E timer \in autoRefresh.active : autoRefreshFires(timer, "ok")
    \/ handleVisibilityChange
    \/ \E event \in {"SIGNED_OUT", "TOKEN_REFRESHED"} : onAuthStateChange(event)
    \/ DashTick(MaxDashMinutes * InactivityCheckPeriod)

SpecDash == InitDash /\ [][DashNext]_vars

\* An administrator who logs in and stays at the page while its intervals fire.
WatchNext ==
    \/ initializeAdminPanel
    \/ \E ip \in ClientAddresses : handleLogin(AdminCredentials, ip, {})
    \/ \E code \in {"123456", "654321"} : handle2FAVerification(code)
    \/ inactivityCheck
    \/ \E timer \in sessionMonitors.active : sessionMonitorFires(timer)
    \/ \E timer \in autoRefresh.active : autoRefreshFires(timer, "ok")
    \/ DashTick(MaxWatchMinutes * InactivityCheckPeriod)

SpecWatch == InitDash /\ [][WatchNext]_vars

\* The page is watched for MaxIdleMinutes before the machine sleeps, and for
\* as long after it has woken up.
IdleHorizon ==
    IF now < autoLogoutTime THEN MaxIdleMinutes * InactivityCheckPeriod
    ELSE autoLogoutTime + MaxIdleMinutes * InactivityCheckPeriod

\* An administrator who logs in and then is active, or idle, or away while
\* the machine sleeps.
IdleNext ==
    \/ initializeAdminPanel
    \/ \E ip \in ClientAddresses : handleLogin(AdminCredentials, ip, {})
    \/ \E code \in {"123456", "654321"} : handle2FAVerification(code)
    \/ userActivity
    \/ inactivityCheck
    \/ \E timer \in autoRefresh.active : autoRefreshFires(timer, "ok")
    \/ DashTick(IdleHorizon)
    \/ Suspend(autoLogoutTime + MaxIdleMinutes * InactivityCheckPeriod)

SpecIdle == InitDash /\ [][IdleNext]_vars

(***************************************************************************)
(* Properties of the dashboard's certificate deletion.                     *)
(***************************************************************************)
\* getCertificates would list the certificate.
ListedActive(table, id) ==
    \E k \in DOMAIN ActiveDescending(table, Len(table)) :
        ActiveDescending(table, Len(table))[k] = id

\* deleteCertificate has completed with its success notification.
DeletedWithSuccess ==
    /\ dashResult.op = "deleteCertificate"
    /\ dashResult.toast = "Certificate deleted successfully"

\* C21 (as stated): when the dashboard's deleteCertificate(id) completes with
\* its success notification, the certificate's active flag in the store is
\* false and a reload of the active certificate list does not contain it.
C21_Original ==
    DeletedWithSuccess =>
        /\ ~certificates[dashResult.id].is_active
        /\ ~ListedActive(certificates, dashResult.id)

(***************************************************************************)
(* Properties of the dashboard's view of the session.                      *)
(***************************************************************************)
\* C22 (as stated): in every reachable state adminState.isAuthenticated is
\* true only if the backend admin session exists and is 2FA-verified.
C22_Original == adminState.isAuthenticated => isAdminLoggedIn

\* One of startSessionMonitoring's intervals fires in this step.
MonitorFiring ==
    \E timer \in sessionMonitors.active :
        /\ timer.due <= now
        /\ sessionMonitors' = Refired(sessionMonitors, timer, sessionCheckInterval)

\* C23 (as stated): while the admin is authenticated in the dashboard and the
\* backend admin session exists and is 2FA-verified, a firing of the
\* dashboard's periodic session check leaves the admin authenticated.
C23_Original ==
    [][(MonitorFiring /\ adminState.isAuthenticated /\ isAdminLoggedIn)
          => adminState'.isAuthenticated]_vars

(***************************************************************************)
(* Writes and the admin session: the mediator's operations on a page where *)
(* an administrator logs in, verifies and logs out.                        *)
(***************************************************************************)
WritesNext ==
    \/ \E ip \in ClientAddresses : adminLogin(AdminCredentials, ip, <<TRUE, TRUE, TRUE>>, {})
    \/ \E code \in {"123456", "654321"} : verify2FACode(code)
    \/ adminLogout
    \/ \E r \in CrudResponses : createProject(ProjectOk, r)
    \/ \E id \in 1..MaxRows : \E r \in CrudResponses : updateProject(id, ProjectMax, r)
    \/ \E id \in 1..MaxRows : \E r \in CrudResponses : deleteProject(id, r)
    \/ \E r \in CrudResponses : createCertificate(CertificateOk, r)

SpecWrites == InitMonitor /\ [][WritesNext]_vars

WriteOps == {"createProject", "updateProject", "deleteProject", "createCertificate"}

\* This step is a write operation whose request reaches the store.
WriteIssued == lastOp'.op \in WriteOps /\ crudResult'.calls = 1

\* C24 (as stated): no project or certificate write reaches the store unless
\* an admin session exists and is 2FA-verified at the time of the call.
C24_Original == [][WriteIssued => isAdminLoggedIn]_vars

(***************************************************************************)
(* Properties of a project's active flag.                                  *)
(***************************************************************************)
\* getProjects: the active rows, or [] when the query fails or throws.
getProjects(response) ==
    IF supabaseClient = "null" \/ response = "error" THEN <<>>
    ELSE ActiveDescending(projects, Len(projects))

\* The row's active flag differs before and after the step.
FlagChanged(id) == projects'[id].is_active # projects[id].is_active

\* C27: a project's active flag is changed only by deleteProject, and only
\* from true to false: createProject stores the row as active, updateProject
\* leaves the flag as it is, no operation sets an inactive project back to
\* active, and so a soft-deleted project stays out of getProjects' result.
C27_ActiveFlagOnlyCleared ==
    [][\A id \in DOMAIN projects' :
          IF id \in DOMAIN projects
          THEN /\ FlagChanged(id) => /\ lastOp'.op = "deleteProject"
                                     /\ projects[id].is_active
                                     /\ ~projects'[id].is_active
               /\ RowState(id) = "inactive" => ~ListedActive(projects', id)
          ELSE /\ lastOp'.op = "createProject"
               /\ projects'[id].is_active]_vars

\* updateProject has stored new columns on a soft-deleted project, which is
\* still inactive and still out of getProjects' result.
C27_Witness ==
    /\ lastOp.op = "updateProject"
    /\ lastOp.path = "stored"
    /\ crudResult.id \in DOMAIN projects
    /\ ~projects[crudResult.id].is_active
    /\ projects[crudResult.id].name = sanitizeString(ProjectMax.name)
    /\ projects[crudResult.id].updated_at > projects[crudResult.id].created_at
    /\ ~ListedActive(projects, crudResult.id)
    /\ getProjects("ok") = <<>>

\* C28 as stated: at any time at most one session-monitoring interval and at
\* most one auto-refresh interval is active.
C28_Original ==
    /\ Cardinality(sessionMonitors.active) <= 1
    /\ Cardinality(autoRefresh.active) <= 1

(***************************************************************************)
(* Properties of the dashboard's inactivity check.                         *)
(***************************************************************************)
\* The step is a run of the inactivity interval's callback.
InactivityChecking ==
    /\ inactivityTimer.armed
    /\ inactivityTimer.due <= now
    /\ inactivityTimer'.due = inactivityTimer.due + InactivityCheckPeriod

C29_ActiveWitness ==
    /\ dashResult.op = "inactivityCheck"
    /\ dashResult.called = "none"
    /\ adminState.isAuthenticated
    /\ lastActivity > 0
    /\ now - lastActivity <= autoLogoutTime

(***************************************************************************)
(* The theme switcher's controls (theme-switcher.js): toggle, reset, the   *)
(* system-preference listener and the transition timeout.                  *)
(***************************************************************************)
MaxTransitions == 3

ThemeIdle ==
    UNCHANGED <<formVars, backendVars, connectionState, retryTimer, initTrace,
                adminLocal, storageResult, dashVars, debounceVars>>

\* initializeThemeSystem has run on this page and registered the listeners.
ThemeInitialised == storageResult.op = "loadUserPreference"

\* toggleTheme: ignored during a transition; otherwise the other of light
\* and dark is saved as the preference, assigned and applied.
toggleTheme ==
    /\ IF isTransitioning
       THEN /\ lastOp' = StorageOp("toggleTheme", "ignored")
            /\ UNCHANGED <<storedTheme, userPreference, themeVars>>
       ELSE LET newTheme == IF currentTheme = "light" THEN "dark" ELSE "light"
                r == saveUserPreference(storedTheme, storageAvailable,
                                        userPreference, newTheme)
                a == applyTheme(newTheme, TRUE, isTransitioning, documentTheme,
                                transitionTimers, now)
            IN  /\ storedTheme' = r.stored
                /\ userPreference' = r.userPreference
                /\ currentTheme' = newTheme
                /\ isTransitioning' = a.isTransitioning
                /\ documentTheme' = a.documentTheme
                /\ transitionTimers' = a.transitionTimers
                /\ lastOp' = StorageOp("toggleTheme", "returned")
                /\ UNCHANGED systemPreference
    /\ UNCHANGED now
    /\ ThemeIdle

\* resetThemePreference: a removeItem that throws ends the function; otherwise
\* the preference is forgotten, the theme determined anew and applied.
resetThemePreference ==
    /\ IF ~storageAvailable
       THEN /\ lastOp' = StorageOp("resetThemePreference", "threw")
            /\ UNCHANGED <<storedTheme, userPreference, themeVars>>
       ELSE LET theme == determineActiveTheme("null", systemPreference)
                a == applyTheme(theme, TRUE, isTransitioning, documentTheme,
                                transitionTimers, now)
            IN  /\ storedTheme' = "null"
                /\ userPreference' = "null"
                /\ currentTheme' = theme
                /\ isTransitioning' = a.isTransitioning
                /\ documentTheme' = a.documentTheme
                /\ transitionTimers' = a.transitionTimers
                /\ lastOp' = StorageOp("resetThemePreference", "returned")
                /\ UNCHANGED systemPreference
    /\ UNCHANGED now
    /\ ThemeIdle

\* handleSystemPreferenceChange: the system preference is recorded; without
\* an explicit preference the theme is determined anew and applied.
handleSystemPreferenceChange(matches) ==
    /\ ThemeInitialised
    /\ MatchMedia(matches) # systemPreference
    /\ systemPreference' = MatchMedia(matches)
    /\ IF userPreference = "null" \/ userPreference = "auto"
       THEN LET theme == determineActiveTheme(userPreference, MatchMedia(matches))
                a == applyTheme(theme, TRUE, isTransitioning, documentTheme,
                                transitionTimers, now)
            IN  /\ currentTheme' = theme
                /\ isTransitioning' = a.isTransitioning
                /\ documentTheme' = a.documentTheme
                /\ transitionTimers' = a.transitionTimers
       ELSE UNCHANGED <<currentTheme, isTransitioning, documentTheme, transitionTimers>>
    /\ lastOp' = StorageOp("handleSystemPreferenceChange", "returned")
    /\ UNCHANGED <<now, storedTheme, userPreference>>
    /\ ThemeIdle

\* The timeout applyTheme armed: the transition is over.
transitionExpires(due) ==
    /\ due \in transitionTimers
    /\ due <= now
    /\ transitionTimers' = transitionTimers \ {due}
    /\ isTransitioning' = FALSE
    /\ lastOp' = StorageOp("transitionExpires", "returned")
    /\ UNCHANGED <<now, storedTheme, userPreference, currentTheme, systemPreference,
                   documentTheme>>
    /\ ThemeIdle

\* Time passes up to the pending timeout.
ThemeTick ==
    /\ transitionTimers # {}
    /\ \A due \in transitionTimers : now < due
    /\ \E due \in transitionTimers :
          /\ \A other \in transitionTimers : due <= other
          /\ due <= MaxTransitions * transitionDuration
          /\ now' = due
    /\ UNCHANGED <<lastOp, storedTheme, userPreference, themeVars>>
    /\ ThemeIdle

ThemeNext ==
    \/ initializeThemeSystem
    \/ toggleTheme
    \/ \E theme \in THEMES \union {"sepia"}, savePreference \in BOOLEAN :
          setTheme(theme, savePreference)
    \/ resetThemePreference
    \/ \E matches \in BOOLEAN : handleSystemPreferenceChange(matches)
    \/ \E due \in transitionTimers : transitionExpires(due)
    \/ ThemeTick

\* The page before DOMContentLoaded: the store works or throws, and the theme
\* key is absent or holds a theme's name or another text.
InitTheme ==
    /\ now = 0
    /\ lastOp = [op |-> "init", tab |-> 0, path |-> "init", arg |-> ""]
    /\ FormInit
    /\ emailjsLoaded = FALSE
    /\ supabaseGlobal = "api"
    /\ BackendInit
    /\ supabaseClient = "null"
    /\ connectionState = NoConnection
    /\ retryTimer = NoTimer
    /\ initTrace = NoInitTrace
    /\ storedTheme \in {"null", "sepia"} \union THEMES
    /\ userPreference = "null"
    /\ adminLocal = NoAdminLocal
    /\ storageResult = NoStorageResult
    /\ DashInit
    /\ ThemeInit
    /\ DebounceInit

SpecTheme == InitTheme /\ [][ThemeNext]_vars

\* C25 as stated: whenever no transition is in progress, the theme applied to
\* the document (data-theme="dark" present exactly when dark) equals
\* currentTheme, whatever toggleTheme, setTheme, reset, system-preference
\* changes and timer expirations came before.
C25_Original == ~isTransitioning => documentTheme = currentTheme

\* The cascade's operations with the local store working and setTheme saving
\* the preference.
CascadeNext ==
    \/ initializeThemeSystem
    \/ toggleTheme
    \/ \E theme \in THEMES \union {"sepia"} : setTheme(theme, TRUE)
    \/ resetThemePreference
    \/ \E matches \in BOOLEAN : handleSystemPreferenceChange(matches)
    \/ \E due \in transitionTimers : transitionExpires(due)
    \/ ThemeTick

InitCascade == InitTheme /\ storageAvailable

SpecCascade == InitCascade /\ [][CascadeNext]_vars

\* C26 as stated: with the local store available, a light or dark user
\* preference is the current theme and a system-preference change does not
\* alter it; with no preference or 'auto' the current theme is the system
\* preference.
C26_Original ==
    [][/\ userPreference' \in {"light", "dark"} => currentTheme' = userPreference'
       /\ userPreference' \notin {"light", "dark"} => currentTheme' = systemPreference'
       /\ (userPreference \in {"light", "dark"} /\ systemPreference' # systemPreference)
             => currentTheme' = currentTheme]_vars

(***************************************************************************)
(* debounce(func, wait) (main.js, admin.js): one wrapped handler, its       *)
(* timeout variable and the browser's pending timeouts.  A timeout runs at *)
(* its due time; a call arriving at that same instant may be handled       *)
(* before or after it.                                                     *)
(***************************************************************************)
DebounceWait == 250
MaxDebounceCalls == 4
MaxDebounceSteps == 6

DebounceStep == DebounceWait \div 2

DebounceArgs == {"a", "b"}

DebounceIdle ==
    UNCHANGED <<formVars, backendVars, lastOp, connectionState, retryTimer, initTrace,
                storedTheme, userPreference, adminLocal, storageResult, dashVars,
                themeVars>>

\* clearTimeout(id): the timeout with that handle, if still pending, is gone.
clearTimeout(timers, id) == {t \in timers : t.id # id}

\* executedFunction(...args) without its clearTimeout: the earlier timeout
\* stays armed.
debounceCall_NoClear(args) ==
    /\ Len(debounceTrace.calls) < MaxDebounceCalls
    /\ LET id == Len(debounceTrace.calls) + 1
       IN  /\ pendingTimers' = pendingTimers \union
                                  {[id |-> id, due |-> now + DebounceWait, args |-> args]}
           /\ debounceTimeout' = id
           /\ debounceTrace' = [debounceTrace EXCEPT
                                   !.calls = Append(@, [at |-> now, args |-> args])]
    /\ UNCHANGED now
    /\ DebounceIdle

\* executedFunction(...args): the pending timeout is cleared and a new one
\* armed for wait from now, carrying this call's arguments.
debounceCall(args) ==
    /\ Len(debounceTrace.calls) < MaxDebounceCalls
    /\ LET id == Len(debounceTrace.calls) + 1
       IN  /\ pendingTimers' = clearTimeout(pendingTimers, debounceTimeout) \union
                                  {[id |-> id, due |-> now + DebounceWait, args |-> args]}
           /\ debounceTimeout' = id
           /\ debounceTrace' = [debounceTrace EXCEPT
                                   !.calls = Append(@, [at |-> now, args |-> args])]
    /\ UNCHANGED now
    /\ DebounceIdle

\* later(): the timeout variable's timer is cleared and func called with the
\* arguments of the call that armed this timeout.
later(timer) ==
    /\ timer \in pendingTimers
    /\ timer.due <= now
    /\ pendingTimers' = clearTimeout(pendingTimers \ {timer}, debounceTimeout)
    /\ debounceTrace' = [debounceTrace EXCEPT
                            !.invoked = Append(@, [at |-> now, args |-> timer.args,
                                                   call |-> timer.id])]
    /\ UNCHANGED <<now, debounceTimeout>>
    /\ DebounceIdle

\* Time passes, but not past a timeout that is due.
DebounceTick ==
    /\ \A t \in pendingTimers : now < t.due
    /\ now + DebounceStep <= MaxDebounceSteps * DebounceStep
    /\ now' = now + DebounceStep
    /\ UNCHANGED debounceVars
    /\ DebounceIdle

DebounceNext ==
    \/ \E args \in DebounceArgs : debounceCall(args)
    \/ \E timer \in pendingTimers : later(timer)
    \/ DebounceTick

InitDebounce == InitMonitor

SpecDebounce == InitDebounce /\ [][DebounceNext]_vars

(***************************************************************************)
(* Properties of debounce.                                                 *)
(***************************************************************************)
\* func has been invoked for the k-th call.
InvokedFor(k) == \E i \in DOMAIN debounceTrace.invoked : debounceTrace.invoked[i].call = k

PendingFor(k) == \E t \in pendingTimers : t.id = k

\* The k-th call is inside a burst: the next call came less than wait later.
InsideBurst(k) ==
    /\ k < Len(debounceTrace.calls)
    /\ debounceTrace.calls[k + 1].at < debounceTrace.calls[k].at + DebounceWait

\* What holds of every burst however it ends: one timer at most, and every
\* invocation is for the latest call, wait after it, with its arguments, and
\* happens once.
DebounceCore ==
    /\ Cardinality(pendingTimers) <= 1
    /\ \A k \in DOMAIN debounceTrace.calls : InsideBurst(k) => ~InvokedFor(k)
    /\ \A i \in DOMAIN debounceTrace.invoked :
          LET v == debounceTrace.invoked[i]
              c == debounceTrace.calls[v.call]
          IN  /\ v.at = c.at + DebounceWait
              /\ v.args = c.args
              /\ \A j \in DOMAIN debounceTrace.invoked :
                    debounceTrace.invoked[j].call = v.call => j = i
              /\ v.call < Len(debounceTrace.calls) =>
                    debounceTrace.calls[v.call + 1].at >= v.at

\* C30 as stated: at most one timer is pending, and for a burst of calls each
\* less than wait after the previous one (the next call, if any, comes wait or
\* more after the burst's last), func is invoked exactly once, wait after the
\* last call, with the last call's arguments.
C30_Original ==
    /\ DebounceCore
    /\ \A k \in DOMAIN debounceTrace.calls :
          ~InsideBurst(k) =>
             \/ InvokedFor(k)
             \/ PendingFor(k) /\ now <= debounceTrace.calls[k].at + DebounceWait

\* The timeout of the k-th call ran before any later call was handled.
FiredBeforeNextCall(k) ==
    \/ k = Len(debounceTrace.calls)
    \/ debounceTrace.calls[k + 1].at > debounceTrace.calls[k].at + DebounceWait
    \/ /\ debounceTrace.calls[k + 1].at = debounceTrace.calls[k].at + DebounceWait
       /\ InvokedFor(k)

\* C30: at most one timer is pending, and for a burst of calls each less than
\* wait after the previous one that is followed by no call until its timer
\* has run, func is invoked exactly once, wait after the last call, with the
\* last call's arguments; a call handled at the instant the timer is due,
\* before the timer's callback, cancels it and continues the burst.
C30_DebouncedBurst ==
    /\ DebounceCore
    /\ \A k \in DOMAIN debounceTrace.calls :
          (~InsideBurst(k) /\ FiredBeforeNextCall(k)) =>
             \/ InvokedFor(k)
             \/ PendingFor(k) /\ now <= debounceTrace.calls[k].at + DebounceWait

\* A burst of three calls, the last with other arguments than the first, has
\* ended in one invocation, and a later call has started the next burst.
C30_Witness ==
    /\ Len(debounceTrace.calls) = 4
    /\ InsideBurst(1)
    /\ InsideBurst(2)
    /\ ~InsideBurst(3)
    /\ debounceTrace.calls[1].args # debounceTrace.calls[3].args
    /\ debounceTrace.calls[2].at > debounceTrace.calls[1].at
    /\ Len(debounceTrace.invoked) = 1
    /\ debounceTrace.invoked[1].call = 3
    /\ debounceTrace.invoked[1].args = debounceTrace.calls[3].args
    /\ PendingFor(4)

====
